---- MODULE Spec2Model ----
(***************************************************************************)
(* A model of ogma's schema compiler: the schema model builder             *)
(* (modelutils/sqlalchemywrappers.py), the model validator                 *)
(* (modelutils/validation.py, main.py) and the commands that consume the   *)
(* loaded model (commands/*.py).                                           *)
(*                                                                         *)
(* Texts are kept as sequences of lines (the text is the lines joined by   *)
(* "\n"), so that splitting, joining and stripping are real operations.    *)
(***************************************************************************)
EXTENDS Naturals, Sequences, FiniteSets, TLC

VARIABLES
    pc,           \* where the run is (the section of the model file, the step of the command)
    metadata,     \* the canonical MetaData object of the model file
    lastOp,       \* the operation that acted last, with the name it was given
    lastError,    \* the exception the last operation raised, or NoError
    engineModel,  \* the model object the last ddl()/save() handed to create_all
    ddlOut,       \* engine -> the text the last ddl() call returned for it
    prevDdlOut,   \* engine -> the text the ddl() call before the last one returned for it
    ddlCalls,     \* engine -> how many ddl() calls were made for it (counted up to 2)
    db,           \* the live databases: database name -> statements executed in it
    source,       \* the model file: its statements and whether a line break ends it
    allow_imports,\* the --allow-imports flag of the run
    executed,     \* how many statements of the model file have been executed
    schema_name,  \* the value of the schema_name holder of the loaded model
    command,      \* the subcommand of the run
    effects,      \* what the command has written, printed or done to the database
    built,        \* what the last Column(...) or Table(...) call handed to sqlalchemy
    live,         \* the tables and views of the database enum-tables works on
    sqlalchemy,   \* the release of sqlalchemy that is installed
    option_order  \* the order in which this run of Python goes through a set of option names

ddlVars == <<engineModel, ddlOut, prevDdlOut, ddlCalls, db>>
loadVars == <<source, allow_imports, executed>>
cmdVars == <<schema_name, command, effects>>
auxVars == <<built, live>>

vars == <<pc, metadata, lastOp, lastError, ddlVars, loadVars, cmdVars, auxVars, sqlalchemy,
          option_order>>

(***************************************************************************)
(* Bounds and input universes                                              *)
(***************************************************************************)
MaxValues == 3
MaxCols == 2
MaxProcs == 1
MaxDdlCols == 1
MaxStmts == 3
MaxNameLen == 2

\* The longest list of options of a Table(...) call
MaxOptions == 2

\* The largest number of stored procedures of a loaded model
MaxLoadedProcs == 2

\* The largest number of values() calls on one enum's template data
MaxCalls == 2

EnumNames == {"E", "F", "keys", "__doc__"}
SchemaEnumNames == {"E", "keys"}
ValueNames == {"A", "B", "name"}
FewValueNames == {"A", "name", "__call__"}
TableNames == {"t", "u"}
ColumnNames == {"a", "b"}
EngineNames == {"mysql", "sqlite"}
DatabaseNames == {"db1"}

SeqsUpTo(S, n) == UNION {[1..k -> S] : k \in 0..n}

EnumArgs(values) == SeqsUpTo(values, MaxValues)

(***************************************************************************)
(* Generic helpers                                                         *)
(***************************************************************************)
Range(s) == {s[i] : i \in 1..Len(s)}

RECURSIVE JoinStr(_, _)
\* str.join: the strings of parts with sep between them
JoinStr(parts, sep) ==
    IF Len(parts) = 0 THEN ""
    ELSE IF Len(parts) = 1 THEN parts[1]
    ELSE parts[1] \o sep \o JoinStr(Tail(parts), sep)

RECURSIVE Spaces(_)
\* " " * n
Spaces(n) == IF n <= 0 THEN "" ELSE " " \o Spaces(n - 1)

RECURSIVE Flatten(_)
Flatten(ss) == IF Len(ss) = 0 THEN <<>> ELSE ss[1] \o Flatten(Tail(ss))

NoError == [type |-> "none", msg |-> ""]

\* Python's None, and a str with the given characters
None == [type |-> "NoneType", value |-> <<>>]
Str(chars) == [type |-> "str", value |-> chars]

\* sqlalchemywrappers.DatabaseModelException raised with the given message
DatabaseModelException(msg) == [type |-> "DatabaseModelException", msg |-> msg]

(***************************************************************************)
(* Enum and _EnumCollection                                                *)
(***************************************************************************)
\* Attributes every _EnumCollection has before any enum is added: those of
\* OrderedDict (the ones of object among them) and add_enum itself.
EnumCollectionClassAttrs ==
    {"__class__", "__class_getitem__", "__contains__", "__delattr__", "__delitem__",
     "__dict__", "__dir__", "__doc__", "__eq__", "__format__", "__ge__",
     "__getattribute__", "__getitem__", "__getstate__", "__gt__", "__hash__",
     "__init__", "__init_subclass__", "__ior__", "__iter__", "__le__", "__len__",
     "__lt__", "__module__", "__ne__", "__new__", "__or__", "__reduce__",
     "__reduce_ex__", "__repr__", "__reversed__", "__ror__", "__setattr__",
     "__setitem__", "__sizeof__", "__str__", "__subclasshook__",
     "add_enum", "clear", "copy", "fromkeys", "get", "items", "keys",
     "move_to_end", "pop", "popitem", "setdefault", "update", "values"}

\* Attributes every Enum object has when its value loop starts: the four set
\* by __init__, the methods of the class and the attributes of object.
EnumObjectAttrs ==
    {"__call__", "__class__", "__delattr__", "__dict__", "__dir__", "__doc__",
     "__eq__", "__format__", "__ge__", "__getattribute__", "__getstate__", "__gt__",
     "__hash__", "__init__", "__init_subclass__", "__le__", "__lt__", "__module__",
     "__ne__", "__new__", "__reduce__", "__reduce_ex__", "__repr__", "__setattr__",
     "__sizeof__", "__str__", "__subclasshook__", "__weakref__",
     "_values", "args", "get_constraint", "kwargs", "name"}

\* hasattr(self, name) on the _EnumCollection of md
coll_hasattr(md, name) == name \in md.enum_attrs \/ name \in EnumCollectionClassAttrs

\* hasattr(self, element) on an Enum object
enum_hasattr(enum, element) == element \in DOMAIN enum.attrs \/ element \in EnumObjectAttrs

EnumIndex(md, name) == CHOOSE i \in 1..Len(md.enums) : md.enums[i].name = name

EnumKeys(md) == [i \in 1..Len(md.enums) |-> md.enums[i].name]

\* self[key] = enum on the OrderedDict: a new key goes last, a known key keeps its place
OrderedDictSet(enums, enum) ==
    IF \E i \in 1..Len(enums) : enums[i].name = enum.name
    THEN [i \in 1..Len(enums) |-> IF enums[i].name = enum.name THEN enum ELSE enums[i]]
    ELSE Append(enums, enum)

add_enum_overwrites(md, enum) ==
    [md  |-> [md EXCEPT !.enum_attrs = @ \cup {enum.name},
                        !.enums = OrderedDictSet(@, enum)],
     err |-> IF coll_hasattr(md, enum.name)
             THEN DatabaseModelException(enum.name \o " enum already defined")
             ELSE NoError]

\* _EnumCollection.add_enum (through MetaData.add_enum)
add_enum(md, enum) ==
    IF coll_hasattr(md, enum.name)
    THEN [md |-> md, err |-> DatabaseModelException(enum.name \o " enum already defined")]
    ELSE [md  |-> [md EXCEPT !.enum_attrs = @ \cup {enum.name},
                             !.enums = OrderedDictSet(@, enum)],
          err |-> NoError]

RECURSIVE EnumValueLoop(_, _, _)
\* the loop of Enum.__init__ over enumerate(args, start=0), from the i-th argument on
EnumValueLoop(enum, args, i) ==
    IF i > Len(args) THEN [enum |-> enum, err |-> NoError]
    ELSE IF enum_hasattr(enum, args[i])
    THEN [enum |-> enum,
          err  |-> DatabaseModelException(
                       args[i] \o " enum value already defined for enum " \o enum.name)]
    ELSE EnumValueLoop([enum EXCEPT !.attrs = (args[i] :> (i - 1)) @@ @,
                                    !.values = Append(@, args[i])],
                       args, i + 1)

\* Enum.__init__(name, metadata, *args): the enum registers itself first and
\* takes its values afterwards; the registered object is the one the loop fills.
Enum_init(md, name, args) ==
    LET fresh == [name |-> name, values |-> <<>>, attrs |-> <<>>]
        added == add_enum(md, fresh)
        loop  == EnumValueLoop(fresh, args, 1)
    IN  IF added.err # NoError THEN added
        ELSE [md  |-> [added.md EXCEPT !.enums[EnumIndex(added.md, name)] = loop.enum],
              err |-> loop.err]

(***************************************************************************)
(* Column types, Table and _TableCollection                                *)
(***************************************************************************)
DateTime == [kind |-> "DateTime", field_data |-> ""]
MYSQL_DATETIME_3 == [kind |-> "mysql.DATETIME(fsp=3)", field_data |-> ""]

\* Enum.__call__: enums.<name>() gives an IntegerEnum whose field_data is that enum
IntegerEnum(enum_name) == [kind |-> "IntegerEnum", field_data |-> enum_name]

\* The column types a model file can write while md is the metadata: the plain
\* types and enums.<name>() for the attributes set on the enum collection.
ColumnTypes(md) == {DateTime} \cup {IntegerEnum(n) : n \in md.enum_attrs}

ColumnsOf(md) == [name : ColumnNames, type : ColumnTypes(md)]

\* The enum object an IntegerEnum column type points at
field_data(md, type) == md.enums[EnumIndex(md, type.field_data)]

RECURSIVE JoinCodes(_, _)
\* ",".join([str(v) for v in range(n)]), from code v on
JoinCodes(v, n) ==
    IF v >= n THEN ""
    ELSE IF v = n - 1 THEN ToString(v)
    ELSE ToString(v) \o "," \o JoinCodes(v + 1, n)

get_constraint_counts_from_one(enum, table_name, column) ==
    [name    |-> "ck_" \o table_name \o "_" \o column.name,
     sqltext |-> column.name \o " in (" \o JoinCodes(1, Len(enum.values) + 1) \o ")"]

\* Enum.get_constraint(column), for a column of the table named table_name
get_constraint(enum, table_name, column) ==
    [name    |-> "ck_" \o table_name \o "_" \o column.name,
     sqltext |-> column.name \o " in (" \o JoinCodes(0, Len(enum.values)) \o ")"]

TableIndex(md, name) == CHOOSE i \in 1..Len(md.tables) : md.tables[i].name = name

TableExists(md, name) == \E i \in 1..Len(md.tables) : md.tables[i].name = name

RECURSIVE ColumnCollection(_)
\* sqlalchemy's Table._init_items over the Column arguments: a column whose name
\* the table already has replaces the earlier one, at the earlier one's place.
ColumnCollection(cols) ==
    IF Len(cols) = 0 THEN <<>>
    ELSE LET before == ColumnCollection(SubSeq(cols, 1, Len(cols) - 1))
             last   == cols[Len(cols)]
         IN  IF \E i \in 1..Len(before) : before[i].name = last.name
             THEN [i \in 1..Len(before) |->
                      IF before[i].name = last.name THEN last ELSE before[i]]
             ELSE Append(before, last)

\* Attributes every _TableCollection has before any table is added: those of
\* object and add_table itself.
TableCollectionClassAttrs ==
    {"__class__", "__delattr__", "__dict__", "__dir__", "__doc__", "__eq__",
     "__format__", "__ge__", "__getattribute__", "__getstate__", "__gt__",
     "__hash__", "__init__", "__init_subclass__", "__le__", "__lt__", "__module__",
     "__ne__", "__new__", "__reduce__", "__reduce_ex__", "__repr__", "__setattr__",
     "__sizeof__", "__str__", "__subclasshook__", "__weakref__", "add_table"}

\* hasattr(self, table._table_name) on the _TableCollection of md
tables_hasattr(md, name) ==
    name \in DOMAIN md.table_names \/ name \in TableCollectionClassAttrs

\* _TableCollection.add_table: columns is the fresh ColumnNames object
add_table(md, columns) ==
    IF tables_hasattr(md, columns.table_name)
    THEN [md  |-> md,
          err |-> DatabaseModelException(columns.table_name \o " table already defined")]
    ELSE [md  |-> [md EXCEPT !.table_names = (columns.table_name :> columns) @@ @],
          err |-> NoError]

\* A column written with ForeignKey("<table>.<column>") has the field fk
HasForeignKey(column) == "fk" \in DOMAIN column

\* The names of add_default_settings for one setting each; the first of a
\* group is the one a default is stored under
EngineAliases == <<"mysql_engine">>

CharsetAliases == <<"mysql_character_set", "mysql_charset",
                    "mysql_default_character_set", "mysql_default_charset">>

CollateAliases == <<"mysql_collate", "mysql_default_collate", "mysql_collation">>

RowFormatAliases == <<"mysql_row_format">>

DictKeys(kw) == {kw[i].name : i \in DOMAIN kw}

set_default_first_name_only(kw, names, default) ==
    IF names[1] \notin DictKeys(kw)
    THEN Append(kw, [name |-> names[1], value |-> default])
    ELSE kw

\* set_default of add_default_settings: kw[names[0]] = default when kw has none
\* of the names (a new key of an ordered dict goes to the end)
set_default(kw, names, default) ==
    IF Range(names) \cap DictKeys(kw) = {}
    THEN Append(kw, [name |-> names[1], value |-> default])
    ELSE kw

\* Table.add_default_settings(kwargs)
add_default_settings(kwargs) ==
    LET engine  == set_default(kwargs, EngineAliases, "InnoDB")
        charset == set_default(engine, CharsetAliases, "utf8mb4")
        collate == set_default(charset, CollateAliases, "utf8mb4_general_ci")
    IN  set_default(collate, RowFormatAliases, "DYNAMIC")

\* The option names in the order add_default_settings names them, comment last
KwargsOrder ==
    EngineAliases \o CharsetAliases \o CollateAliases \o RowFormatAliases \o <<"comment">>

\* Orders in which a run can go through the set of the option names of a
\* table: the mysql dialect makes a Python set of them, whose order follows
\* the hashes of the names (they differ from run to run, not within one), and
\* its sort keeps COLLATE behind the character set.
OptionOrders ==
    {KwargsOrder,
     RowFormatAliases \o <<"comment">> \o CharsetAliases \o EngineAliases \o CollateAliases,
     CharsetAliases \o EngineAliases \o RowFormatAliases \o <<"comment">> \o CollateAliases}

\* The ForeignKeyConstraint objects a table holds once the Column arguments
\* cols are attached to it: attaching a column with a ForeignKey creates the
\* unnamed constraint, in the order of the arguments, and a column that
\* replaces an earlier one of its name takes the earlier one's constraint out
\* of the table. creation_order is the rank among the constraints that stay.
ForeignKeyConstraints(cols) ==
    LET stays == {k \in DOMAIN cols :
                     /\ HasForeignKey(cols[k])
                     /\ \A j \in DOMAIN cols : j > k => cols[j].name # cols[k].name}
    IN  {[name           |-> "",
          sqltext        |-> "FOREIGN KEY(" \o cols[i].name \o ") REFERENCES "
                             \o cols[i].fk.table \o " (" \o cols[i].fk.column \o ")",
          creation_order |-> Cardinality({j \in stays : j <= i}),
          column         |-> cols[i].name,
          referred_table |-> cols[i].fk.table,
          use_alter      |-> cols[i].fk.use_alter] : i \in stays}

\* Table.__new__: sqlalchemy's Table.__new__ with the default settings added
\* to the keyword arguments.  A name metadata.tables already holds is refused
\* when columns are given and gives back the existing table otherwise; a new
\* table takes its columns and its options and is put into metadata.tables.
Table_new(md, name, cols, kwargs) ==
    IF TableExists(md, name)
    THEN IF Len(cols) > 0
         THEN [md  |-> md,
               err |-> [type |-> "InvalidRequestError",
                        msg  |-> "Table '" \o name
                                 \o "' is already defined for this MetaData instance."]]
         ELSE [md |-> md, err |-> NoError]
    ELSE [md  |-> [md EXCEPT !.tables =
                       Append(@, [name        |-> name,
                                  columns     |-> ColumnCollection(cols),
                                  constraints |-> ForeignKeyConstraints(cols),
                                  kwargs      |-> add_default_settings(kwargs)])],
          err |-> NoError]

TableColumnLoop_without_constraints(md, name, i) ==
    LET table == md.tables[TableIndex(md, name)]
    IN  [md EXCEPT !.table_names[name].attrs =
            [c \in {table.columns[j].name : j \in i..Len(table.columns)} |->
                name \o "." \o c]]

RECURSIVE TableColumnLoop(_, _, _)
\* the loop of Table.__init__ over self.columns.values(), from the i-th column
\* on: the column's name becomes an attribute of the ColumnNames object and an
\* enum column appends its check constraint to the table.
TableColumnLoop(md, name, i) ==
    LET table  == md.tables[TableIndex(md, name)]
    IN  IF i > Len(table.columns) THEN md
        ELSE LET column == table.columns[i]
                 named  == [md EXCEPT !.table_names[name].attrs =
                                (column.name :> (name \o "." \o column.name)) @@ @]
                 ck     == get_constraint(field_data(md, column.type), name, column)
             IN  IF column.type.kind = "IntegerEnum"
                 THEN TableColumnLoop(
                          [named EXCEPT !.tables[TableIndex(md, name)].constraints =
                               @ \cup {[name    |-> ck.name,
                                        sqltext |-> ck.sqltext,
                                        creation_order |-> Cardinality(@) + 1]}],
                          name, i + 1)
                 ELSE TableColumnLoop(named, name, i + 1)

\* Table(name, metadata, *columns): __new__, then __init__
Table_init(md, name, cols) ==
    LET made  == Table_new(md, name, cols, <<>>)
        added == add_table(made.md, [table_name |-> name, attrs |-> <<>>])
    IN  IF made.err # NoError THEN made
        ELSE IF added.err # NoError THEN added
        ELSE [md |-> TableColumnLoop(added.md, name, 1), err |-> NoError]

(***************************************************************************)
(* Texts                                                                   *)
(* A text is the sequence of its lines; a line is its characters up to the *)
(* trailing spaces (s) and the number of trailing spaces (sp).             *)
(***************************************************************************)
Line(s) == [s |-> s, sp |-> 0]
BlankLine == Line("")
IsBlank(line) == line.s = ""

\* string concatenation of two texts: the last line of a goes on in the first
\* of b, with every trailing space of a between them
TextConcat(a, b) ==
    IF Len(a) = 0 THEN b
    ELSE IF Len(b) = 0 THEN a
    ELSE LET la == a[Len(a)]
             fb == b[1]
             joined == IF IsBlank(fb) THEN [s |-> la.s, sp |-> la.sp + fb.sp]
                       ELSE [s |-> la.s \o Spaces(la.sp) \o fb.s, sp |-> fb.sp]
         IN  SubSeq(a, 1, Len(a) - 1) \o <<joined>> \o Tail(b)

RECURSIVE LStripLines(_)
LStripLines(t) == IF Len(t) > 0 /\ IsBlank(t[1]) THEN LStripLines(Tail(t)) ELSE t

RECURSIVE RStripLines(_)
RStripLines(t) ==
    IF Len(t) > 0 /\ IsBlank(t[Len(t)]) THEN RStripLines(SubSeq(t, 1, Len(t) - 1)) ELSE t

\* str.strip() of a text whose first line does not start with white space
Strip(t) ==
    LET u == RStripLines(LStripLines(t))
    IN  IF Len(u) = 0 THEN u ELSE [u EXCEPT ![Len(u)].sp = 0]

\* multiline_rstrip: "\n".join(l.rstrip() for l in s.splitlines())
\* splitlines() gives no piece for the end of a text that ends with a line
\* break (or is empty), so that line break is not in the result.  The texts
\* of the model hold no line boundary other than the line break.
multiline_rstrip(t) ==
    LET lines == IF Len(t) > 0 /\ t[Len(t)] = BlankLine
                 THEN SubSeq(t, 1, Len(t) - 1)
                 ELSE t
    IN  [i \in 1..Len(lines) |-> [lines[i] EXCEPT !.sp = 0]]

RECURSIVE JoinTexts(_, _)
\* sep.join(texts)
JoinTexts(texts, sep) ==
    IF Len(texts) = 0 THEN <<>>
    ELSE IF Len(texts) = 1 THEN texts[1]
    ELSE TextConcat(TextConcat(texts[1], sep), JoinTexts(Tail(texts), sep))

(***************************************************************************)
(* Stored procedures                                                       *)
(***************************************************************************)
\* ProcParam.sql
ProcParam_sql(param) == param.direction \o " " \o param.name \o " " \o param.type

\* textwrap.indent(x, 4 * " ") of a text without white-space-only lines
indented(t) == [i \in 1..Len(t) |-> IF IsBlank(t[i]) THEN t[i]
                                    ELSE [t[i] EXCEPT !.s = "    " \o @]]

\* ",\n".join(param.sql for param in params)
ParamsText(params) ==
    [i \in 1..Len(params) |->
        Line(ProcParam_sql(params[i]) \o (IF i < Len(params) THEN "," ELSE ""))]

\* StoredProcedure.sql; sqlbody holds the lines of dedent(self.sqlbody)
StoredProcedure_sql(proc) ==
    LET head == <<Line("CREATE OR REPLACE PROCEDURE " \o proc.name \o "(")>>
        pars == IF Len(proc.params) > 0
                THEN TextConcat(TextConcat(<<BlankLine, BlankLine>>,
                                           indented(ParamsText(proc.params))),
                                <<BlankLine, BlankLine>>)
                ELSE <<>>
        lang == <<Line(")"), Line("LANGUAGE SQL")>>
        cmt  == IF proc.comment # ""
                THEN <<BlankLine, Line("COMMENT '" \o proc.comment \o "'")>>
                ELSE <<>>
        body == TextConcat(TextConcat(<<BlankLine, Line("BEGIN"), BlankLine>>,
                                      indented(proc.sqlbody)),
                           <<BlankLine, Line("END"), BlankLine>>)
    IN  TextConcat(TextConcat(TextConcat(TextConcat(head, pars), lang), cmt), body)

\* StoredProcedure.creation_statement
creation_statement(proc) ==
    JoinTexts(<< <<Line("DELIMITER //")>>,
                 TextConcat(StoredProcedure_sql(proc), <<BlankLine, Line("//")>>),
                 <<Line("DELIMITER ;")>> >>,
              <<BlankLine, BlankLine>>)

\* The StoredProcedure(...) declarations a model file of the model makes
ProcDecls ==
    {[name |-> "p", params |-> <<>>, comment |-> "",
      sqlbody |-> <<Line("SELECT 1;")>>],
     [name |-> "q",
      params |-> <<[direction |-> "OUT", name |-> "n", type |-> "BIGINT"]>>,
      comment |-> "Count the rows",
      sqlbody |-> <<Line("SELECT COUNT(*) INTO n FROM t;")>>]}

\* MetaData.add_stored_procedure
add_stored_procedure(md, proc) == [md EXCEPT !.stored_procedures = Append(@, proc)]

(***************************************************************************)
(* Engine adaptation and DDL compilation                                   *)
(***************************************************************************)
NameLess(a, b) ==
    \/ a = b
    \/ a = "a" /\ b = "b"
    \/ a = "p" /\ b = "q"
    \/ a = "t" /\ b = "u"
    \/ a = "t" /\ b = "v"
    \/ a = "u" /\ b = "v"

RECURSIVE SortedByName(_)
\* sorted(S, key=lambda t: t.name)
SortedByName(S) ==
    IF S = {} THEN <<>>
    ELSE LET first == CHOOSE x \in S : \A y \in S : NameLess(x.name, y.name)
         IN  <<first>> \o SortedByName(S \ {first})

\* Table.foreign_key_constraints
foreign_key_constraints(table) == {c \in table.constraints : "referred_table" \in DOMAIN c}

\* The dependencies sqlalchemy's sort_tables_and_constraints collects: a pair
\* <<parent, child>> of table names for each foreign key of a table child that
\* is written without use_alter and refers to another table parent
Dependencies(tables) ==
    UNION {{<<fkc.referred_table, tables[i].name>> :
               fkc \in {f \in foreign_key_constraints(tables[i]) :
                           ~f.use_alter /\ f.referred_table # tables[i].name}} :
           i \in DOMAIN tables}

topological_sort_input_order(tuples, todo) == [sorted |-> todo, circular |-> FALSE]

RECURSIVE topological_sort(_, _)
\* sqlalchemy's topological.sort(tuples, allitems, deterministic_order=True):
\* again and again the items of todo none of whose parents is in todo, in the
\* order of todo; circular when items are left and each has a parent in todo
topological_sort(tuples, todo) ==
    IF todo = <<>> THEN [sorted |-> <<>>, circular |-> FALSE]
    ELSE LET output == SelectSeq(todo, LAMBDA n : \A m \in Range(todo) : <<m, n>> \notin tuples)
             rest   == topological_sort(
                           tuples,
                           SelectSeq(todo, LAMBDA n : \E m \in Range(todo) : <<m, n>> \in tuples))
         IN  IF output = <<>> THEN [sorted |-> <<>>, circular |-> TRUE]
             ELSE [sorted |-> output \o rest.sorted, circular |-> rest.circular]

RECURSIVE Reach(_, _, _)
\* The items reached from the items S along at most k more tuples
Reach(tuples, S, k) ==
    IF k = 0 THEN S
    ELSE Reach(tuples, S \cup {e[2] : e \in {t \in tuples : t[1] \in S}}, k - 1)

\* sqlalchemy's topological.find_cycles: the items that are on a cycle
find_cycles(tuples, allitems) ==
    {n \in allitems :
        n \in Reach(tuples, {e[2] : e \in {t \in tuples : t[1] = n}}, Cardinality(allitems))}

\* The releases of sqlalchemy that differ in sort_tables_and_constraints: the
\* last one before 1.3.17 stands for those before it, 1.3.17 for those from
\* it on.  create_engine(strategy="mock") of MetaData.ddl and engine.execute
\* of MetaData.save need a release before 2.0.
Releases == {"1.3.16", "1.3.17"}

\* The release of the runs in which the release makes no difference
Installed == "1.3.17"

\* sqlalchemy's sort_tables_and_constraints(tables) without a filter: the
\* tables sorted by dependency.  The foreign keys with use_alter are out of
\* the sort from the start.  When the dependencies are circular, all the
\* foreign keys of a table are taken out of the sort as well: from 1.3.17 on
\* those of the tables on a cycle, before 1.3.17 those of every table that
\* depends on another one.  What is taken out (remaining) is added once all
\* the tables exist.
sort_tables_and_constraints(tables, release) ==
    LET names     == [i \in DOMAIN tables |-> tables[i].name]
        mutable   == Dependencies(tables)
        first     == topological_sort(mutable, names)
        children  == {e[2] : e \in mutable}
        removed   == IF ~first.circular THEN {}
                     ELSE IF release = "1.3.16" THEN children
                     ELSE children \cap find_cycles(mutable, Range(names))
        remaining == UNION {{[table |-> tables[i].name, fkc |-> f] :
                                f \in {g \in foreign_key_constraints(tables[i]) :
                                          tables[i].name \in removed \/ g.use_alter}} :
                            i \in DOMAIN tables}
        second    == topological_sort({e \in mutable : e[2] \notin removed}, names)
    IN  [sorted    |-> [i \in DOMAIN second.sorted |->
                           tables[CHOOSE k \in DOMAIN tables :
                                      tables[k].name = second.sorted[i]]],
         remaining |-> remaining]

\* MetaData.sorted_tables: the tables sorted by name and, under that, by
\* foreign-key dependency
sorted_tables(md, release) ==
    sort_tables_and_constraints(SortedByName(Range(md.tables)), release).sorted

\* The foreign keys create_all takes out of the CREATE TABLE statements of md
remaining_fkcs(md, release) == sort_tables_and_constraints(md.tables, release).remaining

\* The orders in which the elements of a Python set can come out
SetOrders(S) == {q \in [1..Cardinality(S) -> S] : Range(q) = S}

\* dialect.supports_alter
supports_alter(engine_name) == engine_name # "sqlite"

RECURSIVE SortedByCreation(_)
\* sorted(S, key=lambda c: c._creation_order)
SortedByCreation(S) ==
    IF S = {} THEN <<>>
    ELSE LET first == CHOOSE x \in S : \A y \in S : x.creation_order <= y.creation_order
         IN  <<first>> \o SortedByCreation(S \ {first})

\* Table._sorted_constraints: the constraints in the order they were created
sorted_constraints(table) == SortedByCreation(table.constraints)

\* _visitor_mysql_datetime
visitor_mysql_datetime(column) ==
    IF column.type = DateTime THEN [column EXCEPT !.type = MYSQL_DATETIME_3] ELSE column

\* MetaData.visit_columns with the one visitor of the mysql engine
visit_columns(md) ==
    [md EXCEPT !.tables =
        [i \in 1..Len(md.tables) |->
            [md.tables[i] EXCEPT !.columns =
                [j \in 1..Len(md.tables[i].columns) |->
                    visitor_mysql_datetime(md.tables[i].columns[j])]]]]

\* copy.deepcopy(model): what __getstate__ hands over is copied; the event
\* listeners of the object are not part of it.
deepcopy(md) == [md EXCEPT !.after_create = <<>>]

ListenProcs_delimited(md, for_text, i) ==
    [md EXCEPT !.after_create =
        @ \o [k \in 1..Len(md.stored_procedures) |->
                 creation_statement(md.stored_procedures[k])]]

RECURSIVE ListenProcs(_, _, _)
\* the loop of _adapt_model_to_engine over model_copy.stored_procedures
ListenProcs(md, for_text, i) ==
    IF i > Len(md.stored_procedures) THEN md
    ELSE LET proc == md.stored_procedures[i]
             stmt == IF for_text THEN creation_statement(proc)
                     ELSE StoredProcedure_sql(proc)
         IN  ListenProcs([md EXCEPT !.after_create = Append(@, stmt)], for_text, i + 1)

adapt_in_place(model, engine, for_text) ==
    IF engine # "mysql" THEN [model |-> model, adapted |-> model]
    ELSE LET changed == ListenProcs(visit_columns(model), for_text, 1)
         IN  [model |-> changed, adapted |-> changed]

\* _adapt_model_to_engine: model is the object the caller keeps, adapted the
\* object returned; they are the same object when the engine has no visitors.
adapt_model_to_engine(model, engine, for_text) ==
    IF engine # "mysql" THEN [model |-> model, adapted |-> model]
    ELSE [model   |-> model,
          adapted |-> ListenProcs(visit_columns(deepcopy(model)), for_text, 1)]

\* The name of a column type in the DDL of a dialect
TypeName(type) ==
    IF type.kind = "IntegerEnum" THEN "INTEGER"
    ELSE IF type.kind = "mysql.DATETIME(fsp=3)" THEN "DATETIME(3)"
    ELSE "DATETIME"

\* The text sqlalchemy compiles a CREATE TABLE statement to: the columns, then
\* the constraints in creation order, separated by ", \n\t", and behind the
\* closing parenthesis what the dialect makes of the options of the table.
\* The mysql dialect writes mysql_<opt>=value as <OPT>=value, some names with
\* blanks for the underscores and some joined by a blank, and comment with its
\* value quoted, in the order the run goes through the set of their names;
\* sqlite writes none.
CreateTable(table, omit_fkcs, engine_name, order) ==
    LET cols  == [i \in 1..Len(table.columns) |->
                     "\t" \o table.columns[i].name \o " "
                          \o TypeName(table.columns[i].type)]
        cks   == SelectSeq(sorted_constraints(table), LAMBDA c : c \notin omit_fkcs)
        cons  == [i \in 1..Len(cks) |->
                     IF cks[i] \in foreign_key_constraints(table)
                     THEN "\t" \o cks[i].sqltext
                     ELSE "\tCONSTRAINT " \o cks[i].name
                          \o " CHECK (" \o cks[i].sqltext \o ")"]
        items == cols \o cons
        opt(kw) == CASE kw.name = "mysql_engine" -> "ENGINE=" \o kw.value
                     [] kw.name = "mysql_character_set" -> "CHARACTER SET " \o kw.value
                     [] kw.name = "mysql_charset" -> "CHARSET=" \o kw.value
                     [] kw.name = "mysql_default_character_set" ->
                            "DEFAULT CHARACTER SET " \o kw.value
                     [] kw.name = "mysql_default_charset" -> "DEFAULT CHARSET=" \o kw.value
                     [] kw.name = "mysql_collate" -> "COLLATE " \o kw.value
                     [] kw.name = "mysql_default_collate" -> "DEFAULT COLLATE=" \o kw.value
                     [] kw.name = "mysql_collation" -> "COLLATION=" \o kw.value
                     [] kw.name = "mysql_row_format" -> "ROW_FORMAT=" \o kw.value
                     [] OTHER -> "COMMENT='" \o kw.value \o "'"
        given == SelectSeq(order, LAMBDA n : n \in DictKeys(table.kwargs))
        opts  == [i \in 1..Len(given) |->
                     opt(CHOOSE kw \in Range(table.kwargs) : kw.name = given[i])]
        post_create_table == IF engine_name = "mysql" THEN JoinStr(opts, " ") ELSE ""
    IN  <<BlankLine, Line("CREATE TABLE " \o table.name \o " (")>>
        \o [i \in 1..Len(items) |->
               IF i < Len(items) THEN [s |-> items[i] \o ",", sp |-> 1]
               ELSE Line(items[i])]
        \o <<Line(")" \o post_create_table), BlankLine, BlankLine>>

\* The text of AddConstraint for a foreign key
AddConstraint(remaining) ==
    <<Line("ALTER TABLE " \o remaining.table \o " ADD " \o remaining.fkc.sqltext)>>

\* MetaData.create_all(engine, tables=...): the statements handed to the
\* engine: the given tables sorted by dependency, then (on an engine with
\* ALTER) the foreign keys taken out of the sort, in the order set_order the
\* set of them is gone through, and then the after_create listeners.  An
\* engine without ALTER keeps every foreign key in its CREATE TABLE.
create_all(md, engine_name, tables, set_order, release, order) ==
    LET collection == sort_tables_and_constraints(tables, release)
        omitted    == IF supports_alter(engine_name)
                      THEN {r.fkc : r \in collection.remaining}
                      ELSE {}
        alters     == IF supports_alter(engine_name)
                      THEN [i \in DOMAIN set_order |-> AddConstraint(set_order[i])]
                      ELSE <<>>
    IN  [i \in DOMAIN collection.sorted |->
            CreateTable(collection.sorted[i],
                        {r.fkc : r \in {x \in collection.remaining :
                                           /\ supports_alter(engine_name)
                                           /\ x.table = collection.sorted[i].name}},
                        engine_name, order)]
        \o alters \o md.after_create

\* DdlDumper: __call__ keeps str(...).strip() of every statement, ddl joins them
DdlDumper_ddl(statements) ==
    multiline_rstrip(
        JoinTexts([i \in 1..Len(statements) |-> Strip(statements[i])],
                  <<Line(";"), BlankLine, BlankLine>>))

\* MetaData.ddl(engine_name): model is the object ddl was called on, adapted
\* the object create_all ran on, text the string returned
ddl(md, engine_name, set_order, release, order) ==
    LET a == adapt_model_to_engine(md, engine_name, TRUE)
    IN  [model   |-> a.model,
         adapted |-> a.adapted,
         text    |-> DdlDumper_ddl(create_all(a.adapted, engine_name,
                                              sorted_tables(a.adapted, release),
                                              set_order, release, order))]

\* What the database server does with the statements sent to it: it runs
\* them all, or it runs the first `after` of them and the next one fails
\* (no connection, connection lost, statement refused)
Served == [fails |-> FALSE, after |-> 0]
FailsAfter(n) == [fails |-> TRUE, after |-> n]
ServerAnswers == {Served, FailsAfter(0), FailsAfter(1), FailsAfter(2)}

\* MetaData.save(dbsettings) on the databases dbs: CREATE DATABASE fails when
\* the database exists; otherwise the statements are CREATE DATABASE, USE and
\* those of create_all on the adapted model, which is made after USE.  The
\* statements the server ran before one failed stay in the database.
save(md, dbs, database, set_order, server, release, order) ==
    LET a == adapt_model_to_engine(md, "mysql", FALSE)
        statements == << <<Line("CREATE DATABASE " \o database)>>,
                         <<Line("USE " \o database)>> >>
                      \o create_all(a.adapted, "mysql", a.adapted.tables, set_order,
                                    release, order)
        failed == server.fails /\ server.after < Len(statements)
    IN  IF dbs[database] # <<>> /\ ~(server.fails /\ server.after = 0)
        THEN [model |-> md, adapted |-> md, db |-> dbs,
              err |-> [type |-> "ProgrammingError", msg |-> "database exists"]]
        ELSE IF failed
        THEN [model   |-> IF server.after < 2 THEN md ELSE a.model,
              adapted |-> IF server.after < 2 THEN md ELSE a.adapted,
              db      |-> IF server.after = 0 THEN dbs
                          ELSE [dbs EXCEPT ![database] =
                                   SubSeq(statements, 1, server.after)],
              err     |-> [type |-> "OperationalError", msg |-> "statement failed"]]
        ELSE [model   |-> a.model,
              adapted |-> a.adapted,
              db      |-> [dbs EXCEPT ![database] = statements],
              err     |-> NoError]

(***************************************************************************)
(* The run                                                                 *)
(***************************************************************************)
EmptyMetaData ==
    [enums |-> <<>>, enum_attrs |-> {}, tables |-> <<>>, table_names |-> <<>>,
     stored_procedures |-> <<>>, after_create |-> <<>>]

Sections == <<"enums", "tables", "procs", "loaded">>

\* The run is not looked at as the load of a model file
NoLoad ==
    /\ source = [statements |-> <<>>, newline |-> FALSE]
    /\ allow_imports = TRUE
    /\ executed = 0

\* The run is not looked at as a command
NoCommand == schema_name = None /\ command = "" /\ effects = <<>>

\* A MySQL database without tables and views; strict is whether its sql_mode
\* refuses an INSERT that leaves out a NOT NULL column without a default
EmptyDatabase == [tables |-> {}, views |-> {}, strict |-> TRUE]

\* Nothing was handed to sqlalchemy yet; the database of enum-tables is empty
NothingBuilt == [kind |-> "nothing"]

NoAux == built = NothingBuilt /\ live = EmptyDatabase

Init ==
    /\ pc = "enums"
    /\ metadata = EmptyMetaData
    /\ lastOp = [op |-> "start", name |-> ""]
    /\ lastError = NoError
    /\ engineModel = EmptyMetaData
    /\ sqlalchemy = Installed
    /\ option_order = KwargsOrder
    /\ ddlOut = [e \in EngineNames |-> <<>>]
    /\ prevDdlOut = [e \in EngineNames |-> <<>>]
    /\ ddlCalls = [e \in EngineNames |-> 0]
    /\ db = [d \in DatabaseNames |-> <<>>]
    /\ NoLoad
    /\ NoCommand
    /\ NoAux

\* One Enum(name, *args) declaration of the model file.
DeclareEnumWith(name, args) ==
    LET r == Enum_init(metadata, name, args)
    IN  /\ pc = "enums"
        /\ metadata' = r.md
        /\ lastError' = r.err
        /\ lastOp' = [op |-> "Enum", name |-> name, args |-> args]
        /\ UNCHANGED <<sqlalchemy, option_order, pc, ddlVars, loadVars, cmdVars, auxVars>>

DeclareEnum(names, values) ==
    \E name \in names, args \in EnumArgs(values) : DeclareEnumWith(name, args)

\* The model file goes on to its next section: enum declarations, table
\* declarations, stored procedure declarations, and then it is loaded.
NextSection ==
    /\ \E i \in 1..3 : pc = Sections[i] /\ pc' = Sections[i + 1]
    /\ lastOp' = [op |-> "section", name |-> pc']
    /\ lastError' = NoError
    /\ UNCHANGED <<sqlalchemy, option_order, metadata, ddlVars, loadVars, cmdVars, auxVars>>

\* One Table(name, *columns) declaration of the model file.
DeclareTableWith(name, cols) ==
    LET r == Table_init(metadata, name, cols)
    IN  /\ pc = "tables"
        /\ metadata' = r.md
        /\ lastError' = r.err
        /\ lastOp' = [op |-> "Table", name |-> name,
                      columns |-> [i \in 1..Len(cols) |-> cols[i].name]]
        /\ UNCHANGED <<sqlalchemy, option_order, pc, ddlVars, loadVars, cmdVars, auxVars>>

DeclareTable ==
    \E name \in TableNames, cols \in SeqsUpTo(ColumnsOf(metadata), MaxCols) :
        DeclareTableWith(name, cols)

\* One StoredProcedure(...) declaration of the model file.
DeclareProc ==
    /\ pc = "procs"
    /\ Len(metadata.stored_procedures) < MaxProcs
    /\ \E proc \in ProcDecls :
          /\ metadata' = add_stored_procedure(metadata, proc)
          /\ lastOp' = [op |-> "StoredProcedure", name |-> proc.name]
    /\ lastError' = NoError
    /\ UNCHANGED <<sqlalchemy, option_order, pc, ddlVars, loadVars, cmdVars, auxVars>>

\* metadata.ddl(engine_name)
Ddl ==
    /\ pc = "loaded"
    /\ \E engine \in EngineNames, set_order \in SetOrders(remaining_fkcs(metadata, sqlalchemy)) :
          LET r == ddl(metadata, engine, set_order, sqlalchemy, option_order)
          IN  /\ metadata' = r.model
              /\ engineModel' = r.adapted
              /\ ddlOut' = [ddlOut EXCEPT ![engine] = r.text]
              /\ prevDdlOut' = [prevDdlOut EXCEPT ![engine] = ddlOut[engine]]
              /\ ddlCalls' = [ddlCalls EXCEPT ![engine] = IF @ = 0 THEN 1 ELSE 2]
              /\ lastOp' = [op |-> "ddl", name |-> engine]
    /\ lastError' = NoError
    /\ UNCHANGED <<sqlalchemy, option_order, pc, db, loadVars, cmdVars, auxVars>>

\* metadata.save(dbsettings), on a server that runs every statement
Save ==
    /\ pc = "loaded"
    /\ \E d \in DatabaseNames, set_order \in SetOrders(remaining_fkcs(metadata, sqlalchemy)),
          server \in {Served} :
          LET r == save(metadata, db, d, set_order, server, sqlalchemy, option_order)
          IN  /\ lastOp' = [op |-> "save", name |-> d]
              /\ lastError' = r.err
              /\ metadata' = r.model
              /\ db' = r.db
              /\ engineModel' = IF r.err = NoError THEN r.adapted ELSE engineModel
    /\ UNCHANGED <<sqlalchemy, option_order, pc, ddlOut, prevDdlOut, ddlCalls, loadVars, cmdVars, auxVars>>

\* A model file of the DDL runs: the enum E, the table t and possibly the table
\* u, before its stored procedure declarations.
ModelWith(t_cols, u_cols, with_u) ==
    LET enums == Enum_init(EmptyMetaData, "E", <<"A", "B">>).md
        t_md  == Table_init(enums, "t", t_cols).md
    IN  IF with_u THEN Table_init(t_md, "u", u_cols).md ELSE t_md

InitDdl ==
    /\ pc = "procs"
    /\ \E t_cols \in SeqsUpTo([name : ColumnNames, type : {DateTime, IntegerEnum("E")}],
                              MaxDdlCols),
          u_cols \in SeqsUpTo([name : ColumnNames, type : {DateTime, IntegerEnum("E")}],
                              MaxDdlCols),
          with_u \in BOOLEAN :
          metadata = ModelWith(t_cols, u_cols, with_u)
    /\ lastOp = [op |-> "section", name |-> "procs"]
    /\ lastError = NoError
    /\ engineModel = EmptyMetaData
    /\ sqlalchemy = Installed
    /\ option_order = KwargsOrder
    /\ ddlOut = [e \in EngineNames |-> <<>>]
    /\ prevDdlOut = [e \in EngineNames |-> <<>>]
    /\ ddlCalls = [e \in EngineNames |-> 0]
    /\ db = [d \in DatabaseNames |-> <<>>]
    /\ NoLoad
    /\ NoCommand
    /\ NoAux

(***************************************************************************)
(* The model file and its load (validation.py, main.py)                    *)
(* A source is the sequence of its top-level statements and whether a "\n" *)
(* ends its last line.  A statement has                                    *)
(* its physical lines (the pieces the "\n" characters separate) and the    *)
(* nodes ast.parse makes of it, each with its depth in the tree and the    *)
(* physical line it starts on, counted from the statement's first line.    *)
(* A physical line is the sequence of the pieces its form feeds separate.  *)
(***************************************************************************)
Statements ==
    {[lines |-> << <<"x = 1">> >>,
      nodes |-> <<[depth |-> 1, line |-> 1, kind |-> "Assign"]>>],
     [lines |-> << <<"x = 1", "">> >>,
      nodes |-> <<[depth |-> 1, line |-> 1, kind |-> "Assign"]>>],
     [lines |-> << <<"import os">> >>,
      nodes |-> <<[depth |-> 1, line |-> 1, kind |-> "Import"]>>],
     [lines |-> << <<"from os import (">>, <<"    path)">> >>,
      nodes |-> <<[depth |-> 1, line |-> 1, kind |-> "ImportFrom"]>>],
     [lines |-> << <<"def f():">>, <<"    import os">> >>,
      nodes |-> <<[depth |-> 1, line |-> 1, kind |-> "FunctionDef"],
                  [depth |-> 2, line |-> 2, kind |-> "Import"]>>]}

Sources ==
    {[statements |-> stmts, newline |-> newline] :
        stmts \in SeqsUpTo(Statements, MaxStmts), newline \in BOOLEAN}
    \ {[statements |-> <<>>, newline |-> TRUE]}

\* The physical lines of a source: what fin.read() returns, cut at "\n"
PhysicalLines(src) ==
    Flatten([i \in 1..Len(src.statements) |-> src.statements[i].lines])

\* str.splitlines(keepends=False): a form feed ends a line as "\n" does, and
\* there is no piece for the end of a text that ends with the end of a line
splitlines(src) ==
    LET pieces == Flatten(PhysicalLines(src))
    IN  IF ~src.newline /\ Len(pieces) > 0 /\ pieces[Len(pieces)] = ""
        THEN SubSeq(pieces, 1, Len(pieces) - 1)
        ELSE pieces

RECURSIVE ParseFrom(_, _, _)
\* ast.parse: the nodes of the statements from the i-th on, in source order,
\* with lineno counted in physical lines; before is the number of physical
\* lines above the i-th statement
ParseFrom(stmts, i, before) ==
    IF i > Len(stmts) THEN <<>>
    ELSE [k \in 1..Len(stmts[i].nodes) |->
             [depth  |-> stmts[i].nodes[k].depth,
              lineno |-> before + stmts[i].nodes[k].line,
              kind   |-> stmts[i].nodes[k].kind]]
         \o ParseFrom(stmts, i + 1, before + Len(stmts[i].lines))

ast_parse(src) == ParseFrom(src.statements, 1, 0)

\* ast.walk: breadth first, the nodes of a depth in source order
ast_walk(tree) ==
    SelectSeq(tree, LAMBDA n : n.depth = 1) \o SelectSeq(tree, LAMBDA n : n.depth = 2)

IsImport(node) == node.kind \in {"Import", "ImportFrom"}

\* _get_line
get_line(model_content, lineno) == splitlines(model_content)[lineno]

\* validation.DatabaseModelException raised with the given message
ValidationException(msg) == [type |-> "validation.DatabaseModelException", msg |-> msg]

\* validate_model_file
validate_model_file(model_file, allow) ==
    LET imports == SelectSeq(ast_walk(ast_parse(model_file)), IsImport)
    IN  IF allow \/ Len(imports) = 0 THEN NoError
        ELSE ValidationException(
                 "Invalid model: import statement found on line "
                 \o ToString(imports[1].lineno) \o ":\n"
                 \o get_line(model_file, imports[1].lineno))

\* load_dbmodel, up to the end of validate_model_file: a DatabaseModelException
\* of the validation ends the run through utils.error
LoadValidate ==
    /\ pc = "load:validate"
    /\ lastError' = validate_model_file(source, allow_imports)
    /\ pc' = IF lastError' = NoError THEN "load:exec" ELSE "load:failed"
    /\ lastOp' = [op |-> "validate_model_file", name |-> "model.py"]
    /\ UNCHANGED <<sqlalchemy, option_order, metadata, ddlVars, loadVars, cmdVars, auxVars>>

\* load_dbmodel, load_module: exec_module runs the statements of the file
LoadModule ==
    /\ pc = "load:exec"
    /\ executed' = Len(source.statements)
    /\ pc' = "load:done"
    /\ lastOp' = [op |-> "load_module", name |-> "model.py"]
    /\ UNCHANGED <<sqlalchemy, option_order, metadata, lastError, ddlVars, source, allow_imports, cmdVars, auxVars>>

InitLoad ==
    /\ pc = "load:validate"
    /\ metadata = EmptyMetaData
    /\ lastOp = [op |-> "start", name |-> ""]
    /\ lastError = NoError
    /\ engineModel = EmptyMetaData
    /\ sqlalchemy = Installed
    /\ option_order = KwargsOrder
    /\ ddlOut = [e \in EngineNames |-> <<>>]
    /\ prevDdlOut = [e \in EngineNames |-> <<>>]
    /\ ddlCalls = [e \in EngineNames |-> 0]
    /\ db = [d \in DatabaseNames |-> <<>>]
    /\ source \in Sources
    /\ allow_imports \in BOOLEAN
    /\ executed = 0
    /\ NoCommand
    /\ NoAux

NextLoad ==
    \/ LoadValidate
    \/ LoadModule

\* The load of a model file
SpecLoad == InitLoad /\ [][NextLoad]_vars

(***************************************************************************)
(* The schema name and its validation (validation.py)                      *)
(* A schema name is None or a str, kept as the sequence of its characters. *)
(***************************************************************************)
\* The grave accent, U+0060, which a string of this module cannot hold
Backtick == "U+0060"

SchemaChars ==
    {".", "-", "^", "<", ">", "/", "'", "\"", "{", "}", "[", "]", "~", Backtick, "\\", "a", "\n"}

SchemaNames(chars) == {None} \cup {Str(cs) : cs \in SeqsUpTo(chars, MaxNameLen)}

\* The raw string literal invalid_chars of _validate_schema_name
invalid_chars == <<"-", "^", "<", ">", "/", "'", "\"", "{", "}", "[", "\\", "]", "~", Backtick>>

RECURSIVE CharClass(_)
\* The characters of a character class of re with the given body, which has
\* no range: a backslash makes the character after it a literal one
CharClass(body) ==
    IF Len(body) = 0 THEN {}
    ELSE IF body[1] = "\\" /\ Len(body) >= 2
    THEN {body[2]} \cup CharClass(SubSeq(body, 3, Len(body)))
    ELSE {body[1]} \cup CharClass(Tail(body))

\* re.compile(fr"""^[^{invalid_chars}]+$""").match(name), for a str name
valid_name_match(name) ==
    /\ Len(name.value) >= 1
    /\ \A i \in 1..Len(name.value) : name.value[i] \notin CharClass(invalid_chars)

\* utils.error(message): the message is printed and the run ends
SystemExit(msg) == [type |-> "SystemExit", msg |-> msg]

\* _validate_schema_exists
validate_schema_exists(name) ==
    IF name = None
    THEN SystemExit("Schema name is required in DB model files but could not be found in:\n"
                    \o "    model.py\nSpecify a schema with:\n    Schema(\"name\")")
    ELSE NoError

RECURSIVE SplitLines(_, _)
\* The pieces of the characters chars between its line breaks, after the
\* characters cur of the piece begun
SplitLines(chars, cur) ==
    IF Len(chars) = 0 THEN <<cur>>
    ELSE IF chars[1] = "\n" THEN <<cur>> \o SplitLines(Tail(chars), "")
    ELSE SplitLines(Tail(chars), cur \o chars[1])

\* A line of a message: indent spaces, then s, which starts with no white space
Indented(indent, s) == [indent |-> indent, s |-> s]

\* textwrap.dedent of the text with these lines: a line of white space only
\* becomes empty and has no say in the margin, which is the smallest indent
\* of the other lines and is taken off each of them
dedent(lines) ==
    LET inked  == {i \in 1..Len(lines) : lines[i].s # ""}
        margin == IF inked = {} THEN 0
                  ELSE CHOOSE m \in {lines[i].indent : i \in inked} :
                          \A i \in inked : m <= lines[i].indent
    IN  JoinStr([i \in 1..Len(lines) |->
                    IF lines[i].s = "" THEN ""
                    ELSE Spaces(lines[i].indent - margin) \o lines[i].s],
                "\n")

\* The f-string of _validate_schema_name with name and chars put in: the first
\* line of the name stands after the 16 spaces of the source, the lines after
\* a line break of the name start at the left edge
schema_name_message(name, chars) ==
    LET pieces == SplitLines(name, "")
    IN  <<Indented(12, "Invalid schema name:"), Indented(16, pieces[1])>>
        \o [i \in 1..(Len(pieces) - 1) |-> Indented(0, pieces[i + 1])]
        \o <<Indented(12, "was found in file:"),
              Indented(16, "model.py"),
              Indented(12, "A valid schema name cannot contain any of: " \o chars)>>

\* _validate_schema_name: re's match refuses what is not a str
validate_schema_name(name) ==
    IF name.type # "str"
    THEN [type |-> "TypeError",
          msg  |-> "expected string or bytes-like object, got 'NoneType'"]
    ELSE IF ~valid_name_match(name) \/ "." \in Range(name.value)
    THEN SystemExit(dedent(schema_name_message(name.value,
                                               "." \o JoinStr(invalid_chars, ""))))
    ELSE NoError

validate_model_name_first(name) ==
    IF validate_schema_name(name) # NoError THEN validate_schema_name(name)
    ELSE validate_schema_exists(name)

\* validate_model: the validators in their order; the first error ends the run
validate_model(name) ==
    IF validate_schema_exists(name) # NoError THEN validate_schema_exists(name)
    ELSE validate_schema_name(name)

(***************************************************************************)
(* The commands (commands/*.py)                                            *)
(* effects is what a command has written, printed of the model, or done to *)
(* the database, in order.                                                 *)
(***************************************************************************)
Commands == {"generate", "enum-tables", "enum-usage", "create-db"}

CommandSchemaChars == {"A", "."}

UpperCase == <<"A", "B", "C", "D", "E", "F", "G", "H", "I", "J", "K", "L", "M",
               "N", "O", "P", "Q", "R", "S", "T", "U", "V", "W", "X", "Y", "Z">>

LowerCase == <<"a", "b", "c", "d", "e", "f", "g", "h", "i", "j", "k", "l", "m",
               "n", "o", "p", "q", "r", "s", "t", "u", "v", "w", "x", "y", "z">>

DigitChars == {"0", "1", "2", "3", "4", "5", "6", "7", "8", "9"}

\* str.lower() of a character
lower_char(c) ==
    IF c \in Range(UpperCase)
    THEN LowerCase[CHOOSE i \in DOMAIN UpperCase : UpperCase[i] = c]
    ELSE c

\* name.lower(), as a string
lower(name) == JoinStr([i \in 1..Len(name.value) |-> lower_char(name.value[i])], "")

File(name, text) == [kind |-> "file", name |-> name, text |-> text]
Printed(line) == [kind |-> "print", name |-> line, text |-> <<>>]
Database(what, names) == [kind |-> "db", name |-> what, text |-> names]

\* The models the commands run on: an empty one, one with the enum E, the
\* table t with a column of E and a DateTime column, and a stored procedure,
\* and one with the enums E and F, E behind t.a and u.a and F behind t.b
CommandModels ==
    {EmptyMetaData,
     add_stored_procedure(
         ModelWith(<<[name |-> "a", type |-> IntegerEnum("E")],
                     [name |-> "b", type |-> DateTime]>>, <<>>, FALSE),
         CHOOSE proc \in ProcDecls : proc.name = "p"),
     Table_init(
         Table_init(Enum_init(Enum_init(EmptyMetaData, "E", <<"A", "B">>).md,
                              "F", <<"A">>).md,
                    "t", <<[name |-> "a", type |-> IntegerEnum("E")],
                           [name |-> "b", type |-> IntegerEnum("F")]>>).md,
         "u", <<[name |-> "a", type |-> IntegerEnum("E")]>>).md}

\* The characters of the names of the enums of the models
Spelling(name) ==
    CASE name = "E" -> <<"E">>
      [] name = "F" -> <<"F">>
      [] name = "keys" -> <<"k", "e", "y", "s">>
      [] name = "MyEnum" -> <<"M", "y", "E", "n", "u", "m">>
      [] name = "myEnum" -> <<"m", "y", "E", "n", "u", "m">>
      [] name = "AbC" -> <<"A", "b", "C">>

RECURSIVE LowerRun(_, _)
\* The end of the longest run of [a-z] characters that starts at place i,
\* i - 1 when there is none
LowerRun(chars, i) ==
    IF i <= Len(chars) /\ chars[i] \in Range(LowerCase) THEN LowerRun(chars, i + 1)
    ELSE i - 1

RECURSIVE sub_word(_, _)
\* re.sub("(.)([A-Z][a-z]+)", r"\1_\2", name), from the i-th character on
sub_word(chars, i) ==
    IF i > Len(chars) THEN <<>>
    ELSE IF /\ i + 2 <= Len(chars)
            /\ chars[i + 1] \in Range(UpperCase)
            /\ LowerRun(chars, i + 2) >= i + 2
         THEN <<chars[i], "_">> \o SubSeq(chars, i + 1, LowerRun(chars, i + 2))
              \o sub_word(chars, LowerRun(chars, i + 2) + 1)
         ELSE <<chars[i]>> \o sub_word(chars, i + 1)

RECURSIVE sub_capital(_, _)
\* re.sub("([a-z0-9])([A-Z])", r"\1_\2", s1), from the i-th character on
sub_capital(chars, i) ==
    IF i > Len(chars) THEN <<>>
    ELSE IF /\ i + 1 <= Len(chars)
            /\ chars[i] \in Range(LowerCase) \cup DigitChars
            /\ chars[i + 1] \in Range(UpperCase)
         THEN <<chars[i], "_", chars[i + 1]>> \o sub_capital(chars, i + 2)
         ELSE <<chars[i]>> \o sub_capital(chars, i + 1)

\* _camel_to_snake
camel_to_snake(chars) ==
    LET s1 == sub_word(chars, 1)
        s2 == sub_capital(s1, 1)
    IN  [i \in DOMAIN s2 |-> lower_char(s2[i])]

\* _table_name_from_enum
table_name_from_enum(enum_name) ==
    "enum_" \o JoinStr(camel_to_snake(Spelling(enum_name)), "")

\* The enum columns of a table as get_type_mappings gives them: sorted by column name
EnumColumnsByName(table) ==
    SortedByName({c \in Range(table.columns) : c.type.kind = "IntegerEnum"})

\* get_type_mappings(metadata, [TypeFamilies.enum]): the tables with an enum
\* column, sorted by name, each with its enum columns sorted by name
enum_type_mappings(md) ==
    SelectSeq(SortedByName(Range(md.tables)), LAMBDA t : Len(EnumColumnsByName(t)) > 0)

\* NumericEnumTemplateData.__init__
NumericEnumTemplateData(name) ==
    [name |-> name, num |-> 0, values |-> <<>>, package |-> "", conv_package |-> ""]

\* NumericEnumTemplateData._add_value
add_value(data, name) ==
    [data EXCEPT !.values = Append(@, [valname |-> name, valnum |-> data.num]),
                 !.num = @ + 1]

RECURSIVE with_values(_, _)
\* NumericEnumTemplateData.with_values
with_values(data, names) ==
    IF names = <<>> THEN data
    ELSE with_values(add_value(data, Head(names)), Tail(names))

\* EnumCodeGenerator._adjust_enums_from_model, for enums.values()
adjust_enums_from_model(enums, package, conv_package) ==
    [i \in DOMAIN enums |->
        [with_values(NumericEnumTemplateData(enums[i].name), enums[i].values)
            EXCEPT !.package = package, !.conv_package = conv_package]]

IndexError == [type |-> "IndexError", msg |-> "list index out of range"]

\* NumericEnumTemplateData.values(): the object after the call, what the call
\* returns and the exception it raises.  self._values[-1] of an empty list
\* raises IndexError; the slice and dict(...) make new objects.
TemplateData_values(data) ==
    IF Len(data.values) = 0
    THEN [data |-> data, result |-> <<>>, err |-> IndexError]
    ELSE LET final == data.values[Len(data.values)]
         IN  [data   |-> data,
              result |-> SubSeq(data.values, 1, Len(data.values) - 1)
                         \o <<[valname |-> final.valname, valnum |-> final.valnum,
                               last |-> TRUE]>>,
              err    |-> NoError]

proceed_anyway(err, next) == next

\* An exception of a step of a command is caught nowhere: the command goes on
\* to the next step only when the step raised nothing
proceed(err, next) == IF err = NoError THEN next ELSE "exit"

\* generate, its first statement: modelutils.validate_model(args.dbmodel)
GenerateValidate ==
    /\ pc = "command"
    /\ command = "generate"
    /\ lastOp' = [op |-> "validate_model", name |-> command]
    /\ lastError' = validate_model(schema_name)
    /\ pc' = proceed(lastError', "generate:enums")
    /\ UNCHANGED <<sqlalchemy, option_order, metadata, ddlVars, loadVars, cmdVars, auxVars>>

RECURSIVE enum_code_files(_, _)
\* generate_enum_java_code, from the i-th enum on: render_enum and
\* render_enum_converter of each enum.  render_enum opens <name>.java for
\* writing and then renders the template, which asks for the values; when
\* that raises, the opened file stays and nothing after it is written.
enum_code_files(enums, i) ==
    IF i > Len(enums) THEN [files |-> <<>>, err |-> NoError]
    ELSE LET asked == TemplateData_values(enums[i])
             rest  == enum_code_files(enums, i + 1)
         IN  IF asked.err # NoError
             THEN [files |-> <<File(enums[i].name \o ".java", <<>>)>>, err |-> asked.err]
             ELSE [files |-> <<File(enums[i].name \o ".java", <<>>),
                               File(enums[i].name \o "TypeConverter.java", <<>>)>>
                             \o rest.files,
                   err   |-> rest.err]

\* generate: code_generator.generate_enum_java_code()
GenerateEnumCode ==
    /\ pc = "generate:enums"
    /\ LET r == enum_code_files(adjust_enums_from_model(metadata.enums, "", ""), 1)
       IN  /\ effects' = effects \o r.files
           /\ lastError' = r.err
           /\ pc' = proceed(r.err, "generate:ddl")
    /\ lastOp' = [op |-> "generate_enum_java_code", name |-> command]
    /\ UNCHANGED <<sqlalchemy, option_order, metadata, ddlVars, loadVars, schema_name, command, auxVars>>

\* generate: _generate_db_schema_ddl(metadata, package_schema_name, sql_dir)
GenerateDdl ==
    /\ pc = "generate:ddl"
    /\ \E set_order \in SetOrders(remaining_fkcs(metadata, sqlalchemy)) :
          LET r == ddl(metadata, "mysql", set_order, sqlalchemy, option_order)
          IN  /\ metadata' = r.model
              /\ engineModel' = r.adapted
              /\ effects' = Append(effects,
                                   File("full_ddl." \o lower(schema_name) \o ".mysql.sql",
                                        r.text))
    /\ lastOp' = [op |-> "_generate_db_schema_ddl", name |-> command]
    /\ pc' = proceed(NoError, "generate:config")
    /\ UNCHANGED <<sqlalchemy, option_order, lastError, ddlOut, prevDdlOut, ddlCalls, db, loadVars,
                   schema_name, command, auxVars>>

\* commands/common.py TypeFamilies, and the families get_type_mappings takes
\* when it is called without filter_types
TypeFamilies == {"enum", "boolean", "binary"}
DefaultFamilies == {"enum", "boolean"}

\* sqlalchemy's Boolean and BINARY column types
Boolean == [kind |-> "Boolean", field_data |-> ""]
BINARY == [kind |-> "BINARY", field_data |-> ""]

\* The visitor of get_type_mappings on one column: the type names it stores
\* for the column, none or one.  An enum column gets the name of its enum.
visitor(column, filter_types) ==
    IF "enum" \in filter_types /\ column.type.kind = "IntegerEnum"
    THEN <<column.type.field_data>>
    ELSE IF "boolean" \in filter_types /\ column.type.kind = "Boolean"
    THEN <<"BOOLEAN">>
    ELSE IF "binary" \in filter_types /\ column.type.kind = "BINARY"
    THEN <<"BINARY">>
    ELSE <<>>

\* The columns of a table the visitor stores a type for, sorted by name
MappedColumns(table, filter_types) ==
    LET cols == SortedByName({c \in Range(table.columns) :
                                 Len(visitor(c, filter_types)) > 0})
    IN  [j \in DOMAIN cols |-> [column    |-> cols[j].name,
                                type_name |-> visitor(cols[j], filter_types)[1]]]

\* get_type_mappings(metadata, filter_types): table -> column -> type name,
\* the tables sorted by name and the columns of each sorted by name; a table
\* without such a column has no entry
get_type_mappings(md, filter_types) ==
    LET tabs == SelectSeq(SortedByName(Range(md.tables)),
                          LAMBDA t : Len(MappedColumns(t, filter_types)) > 0)
    IN  [i \in DOMAIN tabs |-> [table   |-> tabs[i].name,
                                columns |-> MappedColumns(tabs[i], filter_types)]]

\* ENUM_PACKAGE_TPL.format(base=args.java_package, schema=schema_name.lower())
enum_package(java_package, schema) ==
    java_package \o "." \o lower(schema) \o ".enums"

\* NumericEnumTemplateData.enum_fqn
enum_fqn(package, enum_name) == package \o "." \o enum_name

type_fqn_bare(enums, package, type_name) == type_name

\* generate_jooq_config: enums_by_name.get(type_name), and the fully qualified
\* name of the enum when there is one of that name
type_fqn(enums, package, type_name) ==
    IF \E i \in DOMAIN enums : enums[i].name = type_name
    THEN enum_fqn(package, type_name)
    ELSE type_name

\* EnumCodeGenerator._jooq_forced_type_data
jooq_forced_type_data(table, field, type_name) ==
    [expression |-> table \o "\\." \o field, name |-> type_name]

\* The "fields" of the template data of generate_jooq_config
field_data_of(type_mappings, enums, package) ==
    Flatten([i \in DOMAIN type_mappings |->
                [j \in DOMAIN type_mappings[i].columns |->
                    jooq_forced_type_data(
                        type_mappings[i].table,
                        type_mappings[i].columns[j].column,
                        type_fqn(enums, package,
                                 type_mappings[i].columns[j].type_name))]])

\* The values of --java-package
JavaPackages == {"org", "org.x"}

\* generate: get_type_mappings and code_generator.generate_jooq_config
GenerateConfig ==
    /\ pc = "generate:config"
    /\ \E java_package \in JavaPackages :
          /\ effects' = Append(effects,
                 File("ogma_jooq_gen_config." \o lower(schema_name) \o ".xml",
                      field_data_of(get_type_mappings(metadata, DefaultFamilies),
                                    metadata.enums,
                                    enum_package(java_package, schema_name))))
          /\ lastOp' = [op |-> "generate_jooq_config", name |-> command,
                        package |-> java_package]
    /\ \E do_jooq \in BOOLEAN :
          pc' = proceed(NoError, IF do_jooq THEN "generate:jooq" ELSE "done")
    /\ UNCHANGED <<sqlalchemy, option_order, metadata, lastError, ddlVars, loadVars, schema_name, command, auxVars>>

\* The external generator ended with a status other than 0
CalledProcessError == [type |-> "CalledProcessError", msg |-> "non-zero exit status"]

\* What running a program has done
Ran(program, arguments) == [kind |-> "run", name |-> program, text |-> arguments]

\* What the java of _run_jooq is: a program that ends with exit status 0 or
\* with another one, a path without a file, a file that may not be executed,
\* or None with no java in JAVA_HOME and on the PATH
JavaPrograms == {"exits 0", "exits 3", "no such file", "not executable", "none found"}

\* _run_jooq(java, config_file): with no java, joining the command for print
\* raises; check_call raises when the program cannot be started, and nothing
\* has run then; of the exceptions only CalledProcessError is caught, and
\* generate raises what is returned
run_jooq(java, config_file) ==
    CASE java = "none found" ->
            [ran |-> <<>>,
             err |-> [type |-> "TypeError",
                      msg  |-> "sequence item 0: expected str instance, NoneType found"]]
      [] java = "no such file" ->
            [ran |-> <<>>,
             err |-> [type |-> "FileNotFoundError",
                      msg  |-> "[Errno 2] No such file or directory"]]
      [] java = "not executable" ->
            [ran |-> <<>>,
             err |-> [type |-> "PermissionError", msg |-> "[Errno 13] Permission denied"]]
      [] java = "exits 3" ->
            [ran |-> <<Ran("org.jooq.util.GenerationTool", <<config_file>>)>>,
             err |-> CalledProcessError]
      [] OTHER ->
            [ran |-> <<Ran("org.jooq.util.GenerationTool", <<config_file>>)>>,
             err |-> NoError]

\* The context manager of db_instance between its entry and its exit: the
\* database it made, whether it drops it, and the error in flight in its body
DbInstance(database, drop_after, error) ==
    [kind |-> "db_instance", database |-> database, drop_after |-> drop_after,
     error |-> error]

\* generate with do_jooq enters metadata.db_instance(dbsettings, not keep_db):
\* save runs before the try, so when it raises, generate ends with its error
\* and what it had made in the database stays there.
DbInstanceEnter ==
    /\ pc = "generate:jooq"
    /\ \E d \in DatabaseNames, set_order \in SetOrders(remaining_fkcs(metadata, sqlalchemy)),
          keep_db \in BOOLEAN, server \in ServerAnswers :
          LET r == save(metadata, db, d, set_order, server, sqlalchemy, option_order)
          IN  /\ metadata' = r.model
              /\ db' = r.db
              /\ lastError' = r.err
              /\ lastOp' = [op |-> "db_instance", name |-> d]
              /\ IF r.err # NoError
                 THEN UNCHANGED <<engineModel, effects, built>>
                 ELSE /\ engineModel' = r.adapted
                      /\ effects' = Append(effects, Database("save", <<d>>))
                      /\ built' = DbInstance(d, ~keep_db, NoError)
    /\ pc' = proceed(lastError', "generate:jooq:run")
    /\ UNCHANGED <<sqlalchemy, option_order, ddlOut, prevDdlOut, ddlCalls, loadVars, schema_name, command, live>>

\* The body of the with statement: _run_jooq runs the generator on the
\* configuration file, on the database that db_instance made, and its error is
\* raised in the body
RunJooq ==
    /\ pc = "generate:jooq:run"
    /\ \E java \in JavaPrograms :
          LET r == run_jooq(java, "ogma_jooq_gen_config." \o lower(schema_name) \o ".xml")
          IN  /\ built' = [built EXCEPT !.error = r.err]
              /\ effects' = effects \o r.ran
    /\ lastOp' = [op |-> "_run_jooq", name |-> command]
    /\ pc' = "generate:jooq:finally"
    /\ UNCHANGED <<sqlalchemy, option_order, metadata, lastError, ddlVars, loadVars, schema_name, command, live>>

\* The finally of db_instance: DROP DATABASE unless the database is kept, then
\* the error of the body leaves generate; an error of DROP DATABASE takes its
\* place and the database stays
DbInstanceExit ==
    /\ pc = "generate:jooq:finally"
    /\ \E server \in {Served, FailsAfter(0)} :
          IF ~built.drop_after
          THEN /\ lastError' = built.error
               /\ UNCHANGED <<db, effects>>
          ELSE IF server.fails
          THEN /\ lastError' = [type |-> "OperationalError", msg |-> "statement failed"]
               /\ UNCHANGED <<db, effects>>
          ELSE /\ lastError' = built.error
               /\ db' = [db EXCEPT ![built.database] = <<>>]
               /\ effects' = Append(effects, Database("drop", <<built.database>>))
    /\ built' = NothingBuilt
    /\ lastOp' = [op |-> "db_instance_exit", name |-> built.database]
    /\ pc' = proceed(lastError', "done")
    /\ UNCHANGED <<sqlalchemy, option_order, metadata, engineModel, ddlOut, prevDdlOut, ddlCalls, loadVars,
                   schema_name, command, live>>

\* generate with do_jooq, from the entry of db_instance to its exit
GenerateJooq ==
    \/ DbInstanceEnter
    \/ RunJooq
    \/ DbInstanceExit

\* The database has a table of that name
HasTable(database, name) == \E t \in database.tables : t.name = name

drop_table_left_out(database, name) == database

\* DROP TABLE, after drop_all found that the table exists
drop_table(database, name) ==
    [database EXCEPT !.tables = {t \in @ : t.name # name}]

\* CREATE TABLE, after create_all found that the table does not exist
create_table(database, name, columns) ==
    IF HasTable(database, name) THEN database
    ELSE [database EXCEPT !.tables =
             @ \cup {[name |-> name, columns |-> columns, rows |-> <<>>]}]

\* An error the database answers a statement with
DatabaseError(type, msg) == [type |-> type, msg |-> msg]

\* conn.execute(table.insert(), values): one INSERT with all the rows; with an
\* empty list sqlalchemy sends INSERT INTO <table> () VALUES (), which a
\* strict database refuses and another one answers with a row of defaults.
\* Both columns are UNIQUE; a refused INSERT leaves no row.
execute_insert(database, name, values) ==
    LET table == CHOOSE t \in database.tables : t.name = name
        rows  == IF values = <<>> THEN <<[value |-> 0, name |-> ""]>> ELSE values
        all   == table.rows \o rows
    IN  IF ~HasTable(database, name)
        THEN [db  |-> database,
              err |-> DatabaseError("ProgrammingError", "Table '" \o name \o "' doesn't exist")]
        ELSE IF values = <<>> /\ database.strict
        THEN [db  |-> database,
              err |-> DatabaseError("OperationalError",
                                    "Field 'value' doesn't have a default value")]
        ELSE IF \E x, y \in DOMAIN all :
                    x # y /\ (all[x].value = all[y].value \/ all[x].name = all[y].name)
        THEN [db  |-> database,
              err |-> DatabaseError("IntegrityError", "Duplicate entry")]
        ELSE [db  |-> [database EXCEPT !.tables =
                          {IF t.name = name THEN [t EXCEPT !.rows = all] ELSE t : t \in @}],
              err |-> NoError]

\* The list _create_enum_tables makes: for every enum of the model, in the
\* order of the enum collection, its name, the name of its table and the rows
\* dict(value=index, name=value name)
EnumTableList(md) ==
    [i \in DOMAIN md.enums |->
        [enum   |-> md.enums[i].name,
         table  |-> table_name_from_enum(md.enums[i].name),
         values |-> [k \in DOMAIN md.enums[i].values |->
                        [value |-> k - 1, name |-> md.enums[i].values[k]]]]]

\* The columns of the table of an enum
EnumTableColumns == <<"value", "name">>

\* _make_view and the loop of _generate_views over the fields of a table of
\* enum_usage: the view, its SELECT items, its joins and its query
MakeView(md, table) ==
    LET fields  == EnumColumnsByName(table)
        lookup(enum_name) == table_name_from_enum(enum_name)
        selects == [k \in DOMAIN fields |->
                       lookup(fields[k].type.field_data) \o ".name as "
                       \o fields[k].name \o "_name"]
        joins   == [k \in DOMAIN fields |->
                       "LEFT JOIN " \o lookup(fields[k].type.field_data) \o " ON t."
                       \o fields[k].name \o " = " \o lookup(fields[k].type.field_data)
                       \o ".value"]
        name    == "enumed_" \o table.name \o "_view"
    IN  [name    |-> name,
         table   |-> table.name,
         selects |-> selects,
         joins   |-> joins,
         joined  |-> [k \in DOMAIN fields |-> lookup(fields[k].type.field_data)],
         aliases |-> [k \in DOMAIN fields |-> fields[k].name \o "_name"],
         query   |-> "CREATE OR REPLACE VIEW " \o name \o " AS SELECT t.*, "
                     \o JoinStr(selects, ", ") \o " FROM " \o table.name \o " t "
                     \o JoinStr(joins, " ")]

\* The views of _generate_views, in the order of enum_usage
Views(md) ==
    [i \in DOMAIN enum_type_mappings(md) |-> MakeView(md, enum_type_mappings(md)[i])]

\* conn.execute(query) of _generate_views: MySQL refuses a query on a table
\* that does not exist, a table joined twice under one name, and two result
\* columns of one name; otherwise the view is created or replaced
execute_create_view(database, view) ==
    LET base == CHOOSE t \in database.tables : t.name = view.table
        cols == base.columns \o view.aliases
    IN  IF \E n \in {view.table} \cup Range(view.joined) : ~HasTable(database, n)
        THEN [db  |-> database,
              err |-> DatabaseError("ProgrammingError", "Table doesn't exist")]
        ELSE IF \E x, y \in DOMAIN view.joined : x # y /\ view.joined[x] = view.joined[y]
        THEN [db  |-> database,
              err |-> DatabaseError("OperationalError", "Not unique table/alias")]
        ELSE IF \E x, y \in DOMAIN cols : x # y /\ cols[x] = cols[y]
        THEN [db  |-> database,
              err |-> DatabaseError("OperationalError", "Duplicate column name")]
        ELSE [db  |-> [database EXCEPT !.views =
                          {v \in @ : v.name # view.name}
                          \cup {[name |-> view.name, query |-> view.query]}],
              err |-> NoError]

RECURSIVE drop_all(_, _, _)
\* metadata.drop_all(engine) of _create_enum_tables, from the i-th table down
drop_all(database, ets, i) ==
    IF i = 0 THEN database
    ELSE drop_all(drop_table(database, ets[i].table), ets, i - 1)

RECURSIVE create_enum_tables(_, _, _)
\* metadata.create_all(engine) of _create_enum_tables, from the i-th table on
create_enum_tables(database, ets, i) ==
    IF i > Len(ets) THEN database
    ELSE create_enum_tables(create_table(database, ets[i].table, EnumTableColumns),
                            ets, i + 1)

RECURSIVE populate_enum_tables(_, _, _)
\* _populate_enum_tables, from the i-th table on, up to the first error
populate_enum_tables(database, ets, i) ==
    IF i > Len(ets) THEN [db |-> database, err |-> NoError]
    ELSE LET r == execute_insert(database, ets[i].table, ets[i].values)
         IN  IF r.err # NoError THEN r
             ELSE populate_enum_tables(r.db, ets, i + 1)

RECURSIVE generate_views(_, _, _)
\* _generate_views, from the i-th view on, up to the first error
generate_views(database, views, i) ==
    IF i > Len(views) THEN [db |-> database, err |-> NoError]
    ELSE LET r == execute_create_view(database, views[i])
         IN  IF r.err # NoError THEN r
             ELSE generate_views(r.db, views, i + 1)

\* enum_tables(args) as a whole, run without a stop on a database: the
\* database it leaves
enum_tables(md, database) ==
    LET ets       == EnumTableList(md)
        created   == create_enum_tables(drop_all(database, ets, Len(ets)), ets, 1)
        populated == populate_enum_tables(created, ets, 1)
    IN  IF Len(md.enums) = 0 THEN database
        ELSE IF \E x, y \in DOMAIN ets : x # y /\ ets[x].table = ets[y].table THEN database
        ELSE IF populated.err # NoError THEN populated.db
        ELSE generate_views(populated.db, Views(md), 1).db

\* enum_tables, up to the Table(...) calls of _create_enum_tables: without
\* enums the command prints a line and returns; two enums with one table name
\* make the second Table(...) call fail before the database is touched
EnumTables ==
    /\ pc = "command"
    /\ command = "enum-tables"
    /\ LET ets == EnumTableList(metadata)
       IN  /\ built' = [kind |-> "enum_tables", enum_tables |-> ets, step |-> Len(ets),
                        again |-> IF lastOp.op = "again"
                                  THEN [at |-> lastOp.name, step |-> lastOp.step]
                                  ELSE [at |-> "", step |-> 0]]
           /\ IF Len(metadata.enums) = 0
              THEN /\ effects' = <<Printed("No enums found in the given model")>>
                   /\ lastError' = NoError
                   /\ pc' = "done"
              ELSE IF \E x, y \in DOMAIN ets : x # y /\ ets[x].table = ets[y].table
              THEN /\ effects' = <<>>
                   /\ lastError' = [type |-> "InvalidRequestError",
                                    msg  |-> "Table is already defined for this MetaData instance."]
                   /\ pc' = "exit"
              ELSE /\ effects' = <<>>
                   /\ lastError' = NoError
                   /\ pc' = "enum-tables:drop"
    /\ lastOp' = [op |-> "enum_tables", name |-> command]
    /\ UNCHANGED <<sqlalchemy, option_order, metadata, ddlVars, loadVars, schema_name, command, live>>

\* metadata.drop_all(engine) of _create_enum_tables, one table: the tables go
\* in the reverse of the order they were made in, those that exist are dropped
DropEnumTable ==
    /\ pc = "enum-tables:drop"
    /\ LET table == built.enum_tables[built.step].table
       IN  /\ live' = drop_table(live, table)
           /\ effects' = IF HasTable(live, table)
                         THEN Append(effects, Database("DROP TABLE", <<table>>))
                         ELSE effects
           /\ lastOp' = [op |-> "drop_all", name |-> table]
    /\ IF built.step > 1
       THEN pc' = pc /\ built' = [built EXCEPT !.step = @ - 1]
       ELSE pc' = "enum-tables:create" /\ built' = [built EXCEPT !.step = 1]
    /\ UNCHANGED <<sqlalchemy, option_order, metadata, lastError, ddlVars, loadVars, schema_name, command>>

\* metadata.create_all(engine) of _create_enum_tables, one table
CreateEnumTable ==
    /\ pc = "enum-tables:create"
    /\ LET table == built.enum_tables[built.step].table
       IN  /\ live' = create_table(live, table, EnumTableColumns)
           /\ effects' = IF HasTable(live, table)
                         THEN effects
                         ELSE Append(effects, Database("CREATE TABLE", <<table>>))
           /\ lastOp' = [op |-> "create_all", name |-> table]
    /\ IF built.step < Len(built.enum_tables)
       THEN pc' = pc /\ built' = [built EXCEPT !.step = @ + 1]
       ELSE pc' = "enum-tables:populate" /\ built' = [built EXCEPT !.step = 1]
    /\ UNCHANGED <<sqlalchemy, option_order, metadata, lastError, ddlVars, loadVars, schema_name, command>>

\* _populate_enum_tables, one table
PopulateEnumTable ==
    /\ pc = "enum-tables:populate"
    /\ LET et == built.enum_tables[built.step]
           r  == execute_insert(live, et.table, et.values)
       IN  /\ live' = r.db
           /\ lastError' = r.err
           /\ lastOp' = [op |-> "_populate_enum_tables", name |-> et.table]
           /\ effects' = Append(effects, Database("INSERT", <<et.table>>))
           /\ IF r.err # NoError
              THEN pc' = "exit" /\ built' = built
              ELSE IF built.step < Len(built.enum_tables)
              THEN pc' = pc /\ built' = [built EXCEPT !.step = @ + 1]
              ELSE /\ pc' = IF Len(Views(metadata)) = 0 THEN "done" ELSE "enum-tables:views"
                   /\ built' = [built EXCEPT !.step = 1]
    /\ UNCHANGED <<sqlalchemy, option_order, metadata, ddlVars, loadVars, schema_name, command>>

\* _generate_views, one table of enum_usage
GenerateView ==
    /\ pc = "enum-tables:views"
    /\ LET view == Views(metadata)[built.step]
           r    == execute_create_view(live, view)
       IN  /\ live' = r.db
           /\ lastError' = r.err
           /\ lastOp' = [op |-> "_generate_views", name |-> view.name,
                         joined |-> view.joined, aliases |-> view.aliases]
           /\ effects' = Append(effects, Database(view.query, <<view.name>>))
           /\ IF r.err # NoError
              THEN pc' = "exit" /\ built' = built
              ELSE IF built.step < Len(Views(metadata))
              THEN pc' = pc /\ built' = [built EXCEPT !.step = @ + 1]
              ELSE pc' = "done" /\ built' = built
    /\ UNCHANGED <<sqlalchemy, option_order, metadata, ddlVars, loadVars, schema_name, command>>

\* The enum-tables command is stopped where it is, or has ended, and is run
\* again on the same model and database
RunAgain ==
    /\ command = "enum-tables"
    /\ pc \in {"enum-tables:drop", "enum-tables:create", "enum-tables:populate",
               "enum-tables:views", "done", "exit"}
    /\ pc' = "command"
    /\ lastOp' = [op |-> "again", name |-> pc,
                  step |-> IF built.kind = "enum_tables" THEN built.step ELSE 0]
    /\ lastError' = NoError
    /\ effects' = <<>>
    /\ built' = NothingBuilt
    /\ UNCHANGED <<sqlalchemy, option_order, metadata, ddlVars, loadVars, schema_name, command, live>>

\* enum_usage: with one enum in use, its line and a line for every column of it
EnumUsage ==
    /\ pc = "command"
    /\ command = "enum-usage"
    /\ effects' =
          LET usage == Flatten([i \in 1..Len(enum_type_mappings(metadata)) |->
                          LET t == enum_type_mappings(metadata)[i]
                          IN  [k \in 1..Len(EnumColumnsByName(t)) |->
                                  [enum   |-> EnumColumnsByName(t)[k].type.field_data,
                                   column |-> t.name \o "." \o EnumColumnsByName(t)[k].name]]])
              enums == SelectSeq(usage, LAMBDA u :
                           u = usage[CHOOSE k \in 1..Len(usage) :
                                        /\ usage[k].enum = u.enum
                                        /\ \A j \in 1..(k - 1) : usage[j].enum # u.enum])
              usages(enum) == SelectSeq(usage, LAMBDA u : u.enum = enum)
          IN  Flatten([e \in 1..Len(enums) |->
                  <<Printed("Enum: " \o enums[e].enum)>>
                  \o [k \in 1..Len(usages(enums[e].enum)) |->
                         Printed(" * " \o usages(enums[e].enum)[k].column)]])
    /\ lastOp' = [op |-> "enum_usage", name |-> command]
    /\ pc' = "done"
    /\ UNCHANGED <<sqlalchemy, option_order, metadata, lastError, ddlVars, loadVars, schema_name, command, auxVars>>

\* create_db: the exception of a failed save is printed, not raised
CreateDb ==
    /\ pc = "command"
    /\ command = "create-db"
    /\ \E d \in DatabaseNames, set_order \in SetOrders(remaining_fkcs(metadata, sqlalchemy)),
          server \in ServerAnswers :
          LET r == save(metadata, db, d, set_order, server, sqlalchemy, option_order)
          IN  /\ metadata' = r.model
              /\ db' = r.db
              /\ engineModel' = IF r.err = NoError THEN r.adapted ELSE engineModel
              /\ effects' = IF r.err = NoError
                            THEN <<Database("save", <<d>>)>>
                            ELSE <<>>
    /\ lastOp' = [op |-> "create_db", name |-> command]
    /\ pc' = "done"
    /\ UNCHANGED <<sqlalchemy, option_order, lastError, ddlOut, prevDdlOut, ddlCalls, loadVars, schema_name, command, auxVars>>

\* A command starts on a loaded model
InitCommand(names, models, commands) ==
    /\ pc = "command"
    /\ metadata \in models
    /\ lastOp = [op |-> "start", name |-> ""]
    /\ lastError = NoError
    /\ engineModel = EmptyMetaData
    /\ sqlalchemy = Installed
    /\ option_order = KwargsOrder
    /\ ddlOut = [e \in EngineNames |-> <<>>]
    /\ prevDdlOut = [e \in EngineNames |-> <<>>]
    /\ ddlCalls = [e \in EngineNames |-> 0]
    /\ db = [d \in DatabaseNames |-> <<>>]
    /\ NoLoad
    /\ schema_name \in names
    /\ command \in commands
    /\ effects = <<>>
    /\ NoAux

InitValidate == InitCommand(SchemaNames(SchemaChars), CommandModels, {"generate"})

NextValidate == GenerateValidate

\* The schema validation of generate, over the schema names
SpecValidate == InitValidate /\ [][NextValidate]_vars

InitCmd == InitCommand(SchemaNames(CommandSchemaChars), CommandModels, Commands)

NextCmd ==
    \/ GenerateValidate
    \/ GenerateEnumCode
    \/ GenerateDdl
    \/ GenerateConfig
    \/ GenerateJooq
    \/ EnumTables
    \/ DropEnumTable
    \/ CreateEnumTable
    \/ PopulateEnumTable
    \/ GenerateView
    \/ EnumUsage
    \/ CreateDb

\* The commands on a loaded model
SpecCmd == InitCmd /\ [][NextCmd]_vars

(***************************************************************************)
(* Column (sqlalchemywrappers.py)                                          *)
(* A Python value is its type, its value as text and, for the result of    *)
(* literal(x), the type of x.  Keyword arguments are a function from the   *)
(* keywords given to their values.                                         *)
(***************************************************************************)
Py(type, value) == [type |-> type, value |-> value, of |-> ""]

PyNone == Py("NoneType", "None")

\* sqlalchemy.literal(x): a bind parameter that holds x
literal(x) == [type |-> "BindParameter", value |-> x.value, of |-> x.type]

\* The values a model file gives as default or as server_default: None, booleans,
\* integers, a string, text("CURRENT_TIMESTAMP") and literal(1)
DefaultValues ==
    {PyNone, Py("bool", "True"), Py("bool", "False"), Py("int", "0"), Py("int", "5"),
     Py("str", "x"), Py("TextClause", "CURRENT_TIMESTAMP"), literal(Py("int", "1"))}

\* The keyword arguments of the Column(...) calls: every keyword is given or not
ColumnKwargs ==
    {kw \in [{"default", "server_default", "autoincrement", "nullable"}
                -> DefaultValues \cup {[absent |-> TRUE]}] :
        /\ kw["autoincrement"] \in {[absent |-> TRUE], Py("bool", "True")}
        /\ kw["nullable"] \in {[absent |-> TRUE], Py("bool", "False")}
        /\ kw["server_default"] \in {[absent |-> TRUE], PyNone, Py("str", "x"),
                                     Py("TextClause", "CURRENT_TIMESTAMP")}}

\* The dict of the keywords that are given
AsDict(kw) == [k \in {key \in DOMAIN kw : kw[key] # [absent |-> TRUE]} |-> kw[k]]

\* dict.pop(key, None) and d[key] = value
DictWithout(d, key) == [k \in DOMAIN d \ {key} |-> d[k]]
DictWith(d, key, value) == [k \in DOMAIN d \cup {key} |-> IF k = key THEN value ELSE d[k]]

wrap_default_everything(default) == literal(default)

\* Column._wrap_default
wrap_default(default) ==
    IF default.type \in {"bool", "int"} THEN literal(default) ELSE default

\* Column.__init__(*args, **kwargs): the error raised, and the keyword
\* arguments sqlalchemy's Column.__init__ is called with
Column_init(name, kwargs) ==
    LET default   == IF "default" \in DOMAIN kwargs THEN kwargs["default"] ELSE PyNone
        popped    == DictWithout(kwargs, "default")
        defaulted == IF default # PyNone
                     THEN DictWith(popped, "server_default", wrap_default(default))
                     ELSE popped
        final     == IF "autoincrement" \notin DOMAIN defaulted
                     THEN DictWith(defaulted, "autoincrement", Py("bool", "False"))
                     ELSE defaulted
    IN  IF "server_default" \in DOMAIN kwargs
        THEN [err   |-> DatabaseModelException(
                  "server_default should not be used directly in columns. Use default instead"),
              built |-> NothingBuilt]
        ELSE [err   |-> NoError,
              built |-> [kind |-> "Column", name |-> name, kwargs |-> final]]

\* One Column(name, type, **kwargs) call of the model file
ConstructColumn ==
    /\ pc = "columns"
    /\ \E name \in ColumnNames, kw \in ColumnKwargs :
          LET r == Column_init(name, AsDict(kw))
          IN  /\ built' = r.built
              /\ lastError' = r.err
              /\ lastOp' = [op |-> "Column", name |-> name, kwargs |-> AsDict(kw)]
    /\ UNCHANGED <<sqlalchemy, option_order, pc, metadata, ddlVars, loadVars, cmdVars, live>>

InitColumn ==
    /\ pc = "columns"
    /\ metadata = EmptyMetaData
    /\ lastOp = [op |-> "start", name |-> ""]
    /\ lastError = NoError
    /\ engineModel = EmptyMetaData
    /\ sqlalchemy = Installed
    /\ option_order = KwargsOrder
    /\ ddlOut = [e \in EngineNames |-> <<>>]
    /\ prevDdlOut = [e \in EngineNames |-> <<>>]
    /\ ddlCalls = [e \in EngineNames |-> 0]
    /\ db = [d \in DatabaseNames |-> <<>>]
    /\ NoLoad
    /\ NoCommand
    /\ NoAux

NextColumn == ConstructColumn

\* The Column(...) calls of a model file
SpecColumn == InitColumn /\ [][NextColumn]_vars

(***************************************************************************)
(* Table options (sqlalchemywrappers.py, Table.add_default_settings)       *)
(* The keyword arguments of a Table(...) call are an ordered dict: a       *)
(* sequence of [name, value] with distinct names, in the order of the call.*)
(***************************************************************************)
\* The options the Table(...) calls of a model file give, and their values
OptionNames == {"mysql_engine", "mysql_charset", "mysql_default_charset",
                "mysql_collation", "mysql_row_format", "comment"}

OptionValues == {"InnoDB", "x"}

TableKwargs ==
    {kw \in SeqsUpTo([name : OptionNames, value : OptionValues], MaxOptions) :
        \A i, j \in DOMAIN kw : kw[i].name = kw[j].name => i = j}

\* Table.__new__ of one Table(name, metadata, **kwargs) call: sqlalchemy's
\* Table.__new__ is called with the keyword arguments add_default_settings
\* gives and puts the new table into the metadata (a table of that name that
\* is there already is returned as it is)
TableSettings ==
    /\ pc = "Table.__new__"
    /\ pc' = "Table.__init__"
    /\ built' = [kind |-> "Table", name |-> lastOp.name,
                 kwargs |-> add_default_settings(lastOp.kwargs)]
    /\ metadata' = Table_new(metadata, lastOp.name, <<>>, lastOp.kwargs).md
    /\ lastError' = Table_new(metadata, lastOp.name, <<>>, lastOp.kwargs).err
    /\ UNCHANGED <<sqlalchemy, option_order, lastOp, ddlVars, loadVars, cmdVars, live>>

\* A Table(name, metadata, **kwargs) call of a model file
InitSettings ==
    /\ pc = "Table.__new__"
    /\ metadata \in {EmptyMetaData, Table_init(EmptyMetaData, "t", <<>>).md}
    /\ \E name \in TableNames, kw \in TableKwargs :
          lastOp = [op |-> "Table", name |-> name, kwargs |-> kw]
    /\ lastError = NoError
    /\ engineModel = EmptyMetaData
    /\ sqlalchemy = Installed
    /\ option_order = KwargsOrder
    /\ ddlOut = [e \in EngineNames |-> <<>>]
    /\ prevDdlOut = [e \in EngineNames |-> <<>>]
    /\ ddlCalls = [e \in EngineNames |-> 0]
    /\ db = [d \in DatabaseNames |-> <<>>]
    /\ NoLoad
    /\ NoCommand
    /\ NoAux

NextSettings == TableSettings

\* The options of the Table(...) calls of a model file
SpecSettings == InitSettings /\ [][NextSettings]_vars

(***************************************************************************)
(* Models with foreign keys                                                *)
(***************************************************************************)
FkTableNames == {"t", "u", "v"}

\* What a column refers to: nothing, or the column a of a table
FkTargets == {""} \cup FkTableNames

\* Column(name, DateTime) or
\* Column(name, DateTime, ForeignKey("<target>.a", use_alter=<use_alter>))
FkColumn(name, target, use_alter) ==
    IF target = "" THEN [name |-> name, type |-> DateTime]
    ELSE [name |-> name, type |-> DateTime,
          fk |-> [table |-> target, column |-> "a", use_alter |-> use_alter]]

\* The model file that declares t(a), u(a) and v(a) in that order; the
\* foreign key of u may be written with use_alter
FkModel(t_a, u_a, v_a, u_alter) ==
    LET t_md == Table_init(EmptyMetaData, "t", <<FkColumn("a", t_a, FALSE)>>).md
        u_md == Table_init(t_md, "u", <<FkColumn("a", u_a, u_alter)>>).md
    IN  Table_init(u_md, "v", <<FkColumn("a", v_a, FALSE)>>).md

InitFk ==
    /\ pc = "loaded"
    /\ \E t_a \in FkTargets, u_a \in FkTargets, v_a \in {"", "t"} :
          \E u_alter \in IF u_a = "" THEN {FALSE} ELSE BOOLEAN :
              metadata = FkModel(t_a, u_a, v_a, u_alter)
    /\ lastOp = [op |-> "section", name |-> "loaded"]
    /\ lastError = NoError
    /\ engineModel = EmptyMetaData
    /\ sqlalchemy \in Releases
    /\ option_order = KwargsOrder
    /\ ddlOut = [e \in EngineNames |-> <<>>]
    /\ prevDdlOut = [e \in EngineNames |-> <<>>]
    /\ ddlCalls = [e \in EngineNames |-> 0]
    /\ db = [d \in DatabaseNames |-> <<>>]
    /\ NoLoad
    /\ NoCommand
    /\ NoAux

NextFk == Ddl

\* The DDL runs on loaded models whose tables refer to each other
SpecFk == InitFk /\ [][NextFk]_vars

(***************************************************************************)
(* Loaded models with stored procedures                                    *)
(***************************************************************************)
RECURSIVE WithProcs(_, _)
\* The model md after the StoredProcedure(...) declarations procs
WithProcs(md, procs) ==
    IF procs = <<>> THEN md
    ELSE WithProcs(add_stored_procedure(md, Head(procs)), Tail(procs))

InitHooks ==
    /\ pc = "loaded"
    /\ \E cols \in {<<[name |-> "a", type |-> DateTime]>>,
                    <<[name |-> "a", type |-> IntegerEnum("E")]>>},
          with_u \in BOOLEAN,
          procs \in SeqsUpTo(ProcDecls, MaxLoadedProcs) :
          metadata = WithProcs(ModelWith(cols, cols, with_u), procs)
    /\ lastOp = [op |-> "section", name |-> "loaded"]
    /\ lastError = NoError
    /\ engineModel = EmptyMetaData
    /\ sqlalchemy = Installed
    /\ option_order \in OptionOrders
    /\ ddlOut = [e \in EngineNames |-> <<>>]
    /\ prevDdlOut = [e \in EngineNames |-> <<>>]
    /\ ddlCalls = [e \in EngineNames |-> 0]
    /\ db = [d \in DatabaseNames |-> <<>>]
    /\ NoLoad
    /\ NoCommand
    /\ NoAux

NextHooks == Ddl \/ Save

\* The DDL runs on loaded models with stored procedures
SpecHooks == InitHooks /\ [][NextHooks]_vars

(***************************************************************************)
(* The enum-tables command on a database                                   *)
(***************************************************************************)
\* The model file with the enum E of the given values, possibly a second enum
\* with the values B and A, the table t with the columns a and b of the
\* given types and possibly the table u without an enum column
TablesModel(e_values, second, a_type, b_type, with_u) ==
    LET e_md == Enum_init(EmptyMetaData, "E", e_values).md
        s_md == IF second = "" THEN e_md ELSE Enum_init(e_md, second, <<"B", "A">>).md
        t_md == Table_init(s_md, "t", <<[name |-> "a", type |-> a_type],
                                        [name |-> "b", type |-> b_type]>>).md
    IN  IF with_u THEN Table_init(t_md, "u", <<[name |-> "a", type |-> DateTime]>>).md
        ELSE t_md

TablesModels ==
    UNION {{TablesModel(e_values, second, a_type, b_type, with_u) :
               e_values \in {<<>>, <<"A", "B">>},
               a_type \in {DateTime, IntegerEnum("E")},
               b_type \in {DateTime, IntegerEnum("E")}
                          \cup (IF second = "" THEN {} ELSE {IntegerEnum(second)}),
               with_u \in BOOLEAN} : second \in {"", "F", "MyEnum"}}

\* The database create-db makes of a model: its tables, without rows
CreatedDatabase(md, strict) ==
    [tables |-> {[name    |-> md.tables[i].name,
                  columns |-> [k \in DOMAIN md.tables[i].columns |->
                                  md.tables[i].columns[k].name],
                  rows    |-> <<>>] : i \in DOMAIN md.tables},
     views  |-> {},
     strict |-> strict]

InitTables ==
    /\ pc = "command"
    /\ metadata \in TablesModels
    /\ lastOp = [op |-> "start", name |-> ""]
    /\ lastError = NoError
    /\ engineModel = EmptyMetaData
    /\ sqlalchemy = Installed
    /\ option_order = KwargsOrder
    /\ ddlOut = [e \in EngineNames |-> <<>>]
    /\ prevDdlOut = [e \in EngineNames |-> <<>>]
    /\ ddlCalls = [e \in EngineNames |-> 0]
    /\ db = [d \in DatabaseNames |-> <<>>]
    /\ NoLoad
    /\ schema_name = Str(<<"A">>)
    /\ command = "enum-tables"
    /\ effects = <<>>
    /\ built = NothingBuilt
    /\ \E strict \in BOOLEAN : live = CreatedDatabase(metadata, strict)

NextTables ==
    \/ EnumTables
    \/ DropEnumTable
    \/ CreateEnumTable
    \/ PopulateEnumTable
    \/ GenerateView
    \/ RunAgain

\* The enum-tables command, stopped and run again, on the database of a model
SpecTables == InitTables /\ [][NextTables]_vars

\* The enum names of the models of two enums
TwoEnumNames == {"E", "F", "MyEnum", "myEnum", "AbC"}

\* A model file with the enums first and second, each with the values A and
\* B, and the table t with a column of each
NamesModel(first, second) ==
    LET f_md == Enum_init(EmptyMetaData, first, <<"A", "B">>).md
        s_md == Enum_init(f_md, second, <<"A", "B">>).md
    IN  Table_init(s_md, "t", <<[name |-> "a", type |-> IntegerEnum(first)],
                                [name |-> "b", type |-> IntegerEnum(second)]>>).md

InitNames ==
    /\ pc = "command"
    /\ \E first \in TwoEnumNames :
          \E second \in TwoEnumNames \ {first} :
             metadata = NamesModel(first, second)
    /\ lastOp = [op |-> "start", name |-> ""]
    /\ lastError = NoError
    /\ engineModel = EmptyMetaData
    /\ sqlalchemy = Installed
    /\ option_order = KwargsOrder
    /\ ddlOut = [e \in EngineNames |-> <<>>]
    /\ prevDdlOut = [e \in EngineNames |-> <<>>]
    /\ ddlCalls = [e \in EngineNames |-> 0]
    /\ db = [d \in DatabaseNames |-> <<>>]
    /\ NoLoad
    /\ schema_name = Str(<<"A">>)
    /\ command = "enum-tables"
    /\ effects = <<>>
    /\ built = NothingBuilt
    /\ \E strict \in BOOLEAN : live = CreatedDatabase(metadata, strict)

NextNames ==
    \/ EnumTables
    \/ DropEnumTable
    \/ CreateEnumTable
    \/ PopulateEnumTable
    \/ GenerateView

\* enum-tables on the models of two enums of different names
SpecNames == InitNames /\ [][NextNames]_vars

InitGenerate == InitCommand(SchemaNames(CommandSchemaChars), TablesModels, {"generate"})

NextGenerate ==
    \/ GenerateValidate
    \/ GenerateEnumCode
    \/ GenerateDdl
    \/ GenerateConfig
    \/ GenerateJooq

\* generate on the models with one or two enums and enum columns
SpecGenerate == InitGenerate /\ [][NextGenerate]_vars

(***************************************************************************)
(* The type mapping on models with Boolean and BINARY columns              *)
(* These models go through get_type_mappings and generate_jooq_config      *)
(* only; the DDL of their column types is not modelled.                    *)
(***************************************************************************)
RECURSIVE DeclareEnums(_, _)
\* Enum(name, metadata, "A") for each of the names, in order
DeclareEnums(md, names) ==
    IF names = <<>> THEN md
    ELSE DeclareEnums(Enum_init(md, Head(names), <<"A">>).md, Tail(names))

\* The enums of the type-mapping models, by their names
MappingEnums == {<<>>, <<"E">>, <<"BOOLEAN">>, <<"E", "BINARY">>, <<"BOOLEAN", "BINARY">>}

\* A model file with these enums and the table t with the columns a and b
MappingModel(names, a_type, b_type) ==
    Table_init(DeclareEnums(EmptyMetaData, names), "t",
               <<[name |-> "a", type |-> a_type], [name |-> "b", type |-> b_type]>>).md

MappingModels ==
    UNION {{MappingModel(names, a_type, b_type) :
               a_type \in {Boolean, BINARY, DateTime} \cup {IntegerEnum(n) : n \in Range(names)},
               b_type \in {Boolean, BINARY, DateTime} \cup {IntegerEnum(n) : n \in Range(names)}} :
           names \in MappingEnums}

\* The filter_types argument of a get_type_mappings call: not given, or a list
\* of families
FilterArguments ==
    {[given |-> FALSE, families |-> {}]}
    \cup {[given |-> TRUE, families |-> F] : F \in SUBSET TypeFamilies}

\* filter_types after the first statement of get_type_mappings
filter_types_of(argument) ==
    IF argument.given THEN argument.families ELSE DefaultFamilies

\* get_type_mappings(metadata, filter_types) and the fields generate_jooq_config
\* makes of its result for the enum package of the schema
TypeMapping ==
    /\ pc = "get_type_mappings"
    /\ pc' = "done"
    /\ LET mappings == get_type_mappings(metadata, filter_types_of(lastOp.filter_types))
       IN  built' = [kind     |-> "type_mappings",
                     mappings |-> mappings,
                     fields   |-> field_data_of(mappings, metadata.enums,
                                                enum_package(lastOp.package, schema_name))]
    /\ UNCHANGED <<sqlalchemy, option_order, metadata, lastOp, lastError, ddlVars, loadVars, cmdVars, live>>

InitMapping ==
    /\ pc = "get_type_mappings"
    /\ metadata \in MappingModels
    /\ \E argument \in FilterArguments, java_package \in JavaPackages :
          lastOp = [op |-> "get_type_mappings", name |-> "",
                    filter_types |-> argument, package |-> java_package]
    /\ lastError = NoError
    /\ engineModel = EmptyMetaData
    /\ sqlalchemy = Installed
    /\ option_order = KwargsOrder
    /\ ddlOut = [e \in EngineNames |-> <<>>]
    /\ prevDdlOut = [e \in EngineNames |-> <<>>]
    /\ ddlCalls = [e \in EngineNames |-> 0]
    /\ db = [d \in DatabaseNames |-> <<>>]
    /\ NoLoad
    /\ schema_name = Str(<<"A">>)
    /\ command = "generate"
    /\ effects = <<>>
    /\ NoAux

NextMapping == TypeMapping

\* The type mapping of the models with Boolean and BINARY columns
SpecMapping == InitMapping /\ [][NextMapping]_vars

(***************************************************************************)
(* The template data of the enums (codegen.py)                             *)
(* A dict is a record; the last entry values() returns has the key last.   *)
(***************************************************************************)
\* generate: codegen.EnumCodeGenerator(enums=args.dbmodel.enums, ...)
AdjustEnums ==
    /\ pc = "generate:codegen"
    /\ pc' = "generate:render"
    /\ \E java_package \in JavaPackages :
          /\ built' = [kind     |-> "EnumCodeGenerator",
                       enums    |-> adjust_enums_from_model(
                                        metadata.enums,
                                        enum_package(java_package, schema_name),
                                        enum_package(java_package, schema_name)
                                            \o ".converters"),
                       returned |-> [i \in DOMAIN metadata.enums |-> <<>>]]
          /\ lastOp' = [op |-> "EnumCodeGenerator", name |-> command,
                        package |-> java_package]
    /\ UNCHANGED <<sqlalchemy, option_order, metadata, lastError, ddlVars, loadVars, cmdVars, live>>

\* A template asks the data of one enum for its values; an exception ends
\* the command
Values ==
    /\ pc = "generate:render"
    /\ \E i \in DOMAIN built.enums :
          /\ Len(built.returned[i]) < MaxCalls
          /\ LET call == TemplateData_values(built.enums[i])
             IN  /\ lastOp' = [op |-> "values", name |-> built.enums[i].name]
                 /\ lastError' = call.err
                 /\ pc' = IF call.err = NoError THEN pc ELSE "exit"
                 /\ built' = [built EXCEPT
                                 !.enums[i] = call.data,
                                 !.returned[i] = IF call.err = NoError
                                                 THEN Append(@, call.result) ELSE @]
    /\ UNCHANGED <<sqlalchemy, option_order, metadata, ddlVars, loadVars, cmdVars, live>>

\* The models Enum(name, metadata, *args) leaves for these argument lists
\* when it raises nothing
EnumDeclarations(md, name, arg_lists) ==
    {r.md : r \in {x \in {Enum_init(md, name, args) : args \in arg_lists} :
                      x.err = NoError}}

\* The enum declarations of a model file that loads: E with up to two values
\* and possibly F
TemplateModels ==
    LET firsts == EnumDeclarations(EmptyMetaData, "E", SeqsUpTo({"A", "B"}, 2))
    IN  firsts \cup UNION {EnumDeclarations(m, "F", {<<>>, <<"B", "A", "C">>}) :
                              m \in firsts}

InitTemplate ==
    /\ pc = "generate:codegen"
    /\ metadata \in TemplateModels
    /\ lastOp = [op |-> "validate_model", name |-> "generate"]
    /\ lastError = NoError
    /\ engineModel = EmptyMetaData
    /\ sqlalchemy = Installed
    /\ option_order = KwargsOrder
    /\ ddlOut = [e \in EngineNames |-> <<>>]
    /\ prevDdlOut = [e \in EngineNames |-> <<>>]
    /\ ddlCalls = [e \in EngineNames |-> 0]
    /\ db = [d \in DatabaseNames |-> <<>>]
    /\ NoLoad
    /\ schema_name = Str(<<"A">>)
    /\ command = "generate"
    /\ effects = <<>>
    /\ NoAux

NextTemplate ==
    \/ AdjustEnums
    \/ Values

\* The template data of the enums of generate and the values() calls on it
SpecTemplate == InitTemplate /\ [][NextTemplate]_vars

NextEnum == DeclareEnum(EnumNames, FewValueNames)

\* Enum declarations alone, over all the enum names
SpecEnum == Init /\ [][NextEnum]_vars

Next ==
    \/ DeclareEnum(SchemaEnumNames, ValueNames)
    \/ NextSection
    \/ DeclareTable

\* The model file up to its table declarations
Spec == Init /\ [][Next]_vars

NextDdl ==
    \/ DeclareProc
    \/ NextSection
    \/ Ddl
    \/ Save

\* The stored procedure declarations of a model file and the DDL runs on the
\* loaded model
SpecDdl == InitDdl /\ [][NextDdl]_vars
(***************************************************************************)
(* Properties of enum declarations                                         *)
(***************************************************************************)
\* The value names that occur at two positions of args
RepeatedValues(args) ==
    {args[i] : i \in {k \in 1..Len(args) : \E j \in 1..Len(args) : j # k /\ args[j] = args[k]}}

\* C7: declaring an enumeration whose name is already in the enum collection
\* fails with the error "<name> enum already defined" and leaves the collection
\* as it was: the same enums under the same names, in the same order.
C7_DuplicateEnumRejected ==
    [][(lastOp'.op = "Enum" /\ lastOp'.name \in Range(EnumKeys(metadata)))
          => /\ lastError' = DatabaseModelException(lastOp'.name \o " enum already defined")
             /\ metadata'.enums = metadata.enums
             /\ metadata'.enum_attrs = metadata.enum_attrs]_vars

\* C7 happens: E was declared with a value, F after it, and E was declared
\* again with other values and refused.
C7_Witness ==
    /\ lastOp.op = "Enum" /\ lastOp.name = "E"
    /\ lastError = DatabaseModelException("E enum already defined")
    /\ Len(metadata.enums) = 2
    /\ metadata.enums[1].name = "E" /\ metadata.enums[2].name = "F"
    /\ metadata.enums[1].values = <<"A">>
    /\ lastOp.args # metadata.enums[1].values

\* C8, as the specification states it: declaring an enumeration (under a name
\* not taken) in which a value name occurs twice fails with an error that names
\* a repeated value and the enumeration, and no enumeration holds a value name
\* at two positions.
C8_DuplicateValueNamed ==
    /\ [][(/\ lastOp'.op = "Enum"
           /\ ~coll_hasattr(metadata, lastOp'.name)
           /\ RepeatedValues(lastOp'.args) # {})
             => \E v \in RepeatedValues(lastOp'.args) :
                   lastError' = DatabaseModelException(
                       v \o " enum value already defined for enum " \o lastOp'.name)]_vars
    /\ [](\A i \in 1..Len(metadata.enums) : RepeatedValues(metadata.enums[i].values) = {})
(***************************************************************************)
(* Properties of table declarations                                        *)
(***************************************************************************)
\* The text "0,1,...,n-1"
CodesUpTo(n) == JoinStr([i \in 1..n |-> ToString(i - 1)], ",")

\* The text of the check constraint of an enum column, for an enum of n values
CheckText(column_name, n) == column_name \o " in (" \o CodesUpTo(n) \o ")"

\* The enum-backed columns of a table, in the order of its columns
EnumColumns(table) == SelectSeq(table.columns, LAMBDA c : c.type.kind = "IntegerEnum")

HasRepeat(names) == \E i, j \in 1..Len(names) : i # j /\ names[i] = names[j]

\* C1: an enumeration declared successfully holds the value names it was given,
\* the value at position i (counted from 0) has code i, so that the codes are
\* 0..N-1, and the check constraint of every column of an enumeration of N
\* values has the text "<column> in (0,1,...,N-1)".
C1_EnumCodes ==
    /\ (lastOp.op = "Enum" /\ lastError = NoError)
          => metadata.enums[EnumIndex(metadata, lastOp.name)].values = lastOp.args
    /\ \A i \in 1..Len(metadata.enums) :
          LET e == metadata.enums[i]
          IN  /\ DOMAIN e.attrs = Range(e.values)
              /\ \A k \in 1..Len(e.values) : e.attrs[e.values[k]] = k - 1
              /\ {e.attrs[v] : v \in DOMAIN e.attrs} = {k - 1 : k \in 1..Len(e.values)}
    /\ \A t \in 1..Len(metadata.tables) :
          LET table == metadata.tables[t]
          IN  \A c \in 1..Len(table.columns) :
                 LET column == table.columns[c]
                 IN  column.type.kind = "IntegerEnum"
                        => \E ck \in table.constraints :
                              /\ ck.name = "ck_" \o table.name \o "_" \o column.name
                              /\ ck.sqltext =
                                   CheckText(column.name,
                                             Len(field_data(metadata, column.type).values))

\* C1 happens: E was declared with two values and a table declared after it
\* has a column of E, whose check constraint lists the codes 0 and 1.
C1_Witness ==
    /\ lastOp.op = "Table" /\ lastOp.name = "t" /\ lastError = NoError
    /\ \E i \in 1..Len(metadata.enums) :
          metadata.enums[i].name = "E" /\ metadata.enums[i].values = <<"B", "A">>
    /\ metadata.tables[TableIndex(metadata, "t")].columns
          = <<[name |-> "a", type |-> IntegerEnum("E")]>>
    /\ \E ck \in metadata.tables[TableIndex(metadata, "t")].constraints :
          ck.sqltext = "a in (0,1)"

\* C9, as the specification states it: a Table declaration under a name already
\* declared, and a Table declaration with two Columns of the same name, fail
\* with the error kind of a duplicate enumeration, and after a refused
\* redeclaration the tables and the column-name namespaces are as before.
C9_DuplicateTableOrColumnRejected ==
    [][(/\ lastOp'.op = "Table"
        /\ TableExists(metadata, lastOp'.name) \/ HasRepeat(lastOp'.columns))
          => /\ lastError'.type = "DatabaseModelException"
             /\ TableExists(metadata, lastOp'.name)
                   => /\ metadata'.tables = metadata.tables
                      /\ metadata'.table_names = metadata.table_names]_vars

CountLines(text, s) == Cardinality({i \in 1..Len(text) : text[i] = Line(s)})

\* C2: a ddl(engine) call on the loaded model returns the text the call before
\* it returned for that engine, whatever ddl() and save() calls ran in between;
\* the text creates every table once and every stored procedure as often as
\* the engine's adaptation registers it: once for mysql, not at all otherwise.
C2_DdlDeterministic ==
    \A e \in EngineNames :
        /\ ddlCalls[e] = 2 => ddlOut[e] = prevDdlOut[e]
        /\ ddlCalls[e] >= 1 =>
              /\ \A t \in 1..Len(metadata.tables) :
                    CountLines(ddlOut[e], "CREATE TABLE " \o metadata.tables[t].name \o " (") = 1
              /\ CountLines(ddlOut[e], "DELIMITER //")
                    = IF e = "mysql" THEN Len(metadata.stored_procedures) ELSE 0

\* C2 happens: ddl("mysql") ran twice, with a save() in between, on a model
\* with a DateTime column and a stored procedure.
C2_Witness ==
    /\ ddlCalls["mysql"] = 2
    /\ lastOp = [op |-> "ddl", name |-> "mysql"]
    /\ db["db1"] # <<>>
    /\ Len(metadata.stored_procedures) >= 1
    /\ \E t \in 1..Len(metadata.tables) :
          \E c \in 1..Len(metadata.tables[t].columns) :
              metadata.tables[t].columns[c].type = DateTime

\* C3: a ddl() or save() call leaves the canonical metadata as it was: its
\* enums, table names and stored procedures, the type of each of its columns
\* (no DateTime column becomes DATETIME(3)), and no after-create hook on it;
\* the DATETIME(3) types and the hooks are on the adapted model of the call.
C3_CanonicalUntouched ==
    [][lastOp'.op \in {"ddl", "save"} =>
          /\ metadata' = metadata
          /\ metadata'.after_create = <<>>
          /\ \A t \in 1..Len(metadata'.tables) :
                \A c \in 1..Len(metadata'.tables[t].columns) :
                    metadata'.tables[t].columns[c].type # MYSQL_DATETIME_3
          /\ (lastError' = NoError /\ lastOp' # [op |-> "ddl", name |-> "sqlite"]) =>
                /\ Len(engineModel'.after_create) = Len(metadata.stored_procedures)
                /\ \A t \in 1..Len(metadata.tables) :
                      \A c \in 1..Len(metadata.tables[t].columns) :
                          metadata.tables[t].columns[c].type = DateTime
                             => engineModel'.tables[t].columns[c].type = MYSQL_DATETIME_3]_vars

\* C3 happens: after a ddl("mysql") call and a save() the canonical model still
\* has its DateTime column and no hook, and the adapted model of the save has
\* the DATETIME(3) column and the hook of the stored procedure.
C3_Witness ==
    /\ lastOp.op = "save" /\ lastError = NoError
    /\ ddlCalls["mysql"] >= 1
    /\ Len(metadata.stored_procedures) >= 1
    /\ metadata.after_create = <<>>
    /\ engineModel.after_create # <<>>
    /\ \E t \in 1..Len(metadata.tables) :
          /\ Len(metadata.tables[t].columns) >= 1
          /\ metadata.tables[t].columns[1].type = DateTime
          /\ engineModel.tables[t].columns[1].type = MYSQL_DATETIME_3
(***************************************************************************)
(* Properties of the load                                                  *)
(***************************************************************************)
\* The physical lines of a source on which an import statement starts
ImportLines(src) ==
    {n \in 1..Len(PhysicalLines(src)) :
        \E k \in 1..Len(ast_parse(src)) :
            ast_parse(src)[k].lineno = n /\ IsImport(ast_parse(src)[k])}

\* The text of a physical line of a source
LiteralLine(src, n) == JoinStr(PhysicalLines(src)[n], "\f")

\* C4, as the specification states it: the load of a source with an import
\* statement, at any depth, fails when imports are not allowed, with an error
\* that has the number of a line an import statement is on and the text of that
\* line of the source, and without a statement of the model executed; every
\* other load passes the validation and executes the statements of the model.
C4_ImportsRefused ==
    /\ [][pc = "load:validate" /\ pc' # pc =>
            IF ~allow_imports /\ ImportLines(source) # {}
            THEN /\ pc' = "load:failed"
                 /\ executed' = 0
                 /\ \E n \in ImportLines(source) :
                       lastError' = ValidationException(
                           "Invalid model: import statement found on line "
                           \o ToString(n) \o ":\n" \o LiteralLine(source, n))
            ELSE /\ pc' = "load:exec"
                 /\ lastError' = NoError]_vars
    /\ [](pc = "load:failed" => executed = 0)
    /\ [](pc = "load:done" => executed = Len(source.statements))
(***************************************************************************)
(* Properties of the schema validation and of the commands                 *)
(***************************************************************************)
\* The characters a schema name may not contain
ForbiddenSchemaChars ==
    {".", "-", "^", "<", ">", "/", "'", "\"", "{", "}", "[", "]", "~", Backtick}

\* A schema name is set, not empty and without a forbidden character
SchemaNameAccepted(name) ==
    /\ name.type = "str"
    /\ Len(name.value) > 0
    /\ Range(name.value) \cap ForbiddenSchemaChars = {}

\* C5: validate_model ends the run with the message of the missing schema name
\* when no schema name was set (the name check does not see the unset name),
\* ends the run with the message of the invalid name when the name is empty or
\* has one of the characters . - ^ < > / ' " { } [ ] ~ and the grave accent,
\* and for every other name returns without an error and changes nothing.
C5_ValidateModel ==
    [][lastOp'.op = "validate_model" =>
          /\ schema_name = None =>
                /\ lastError'.type = "SystemExit"
                /\ lastError' = validate_schema_exists(None)
                /\ pc' = "exit"
          /\ (schema_name # None /\ ~SchemaNameAccepted(schema_name)) =>
                /\ lastError'.type = "SystemExit"
                /\ lastError' # validate_schema_exists(None)
                /\ pc' = "exit"
          /\ SchemaNameAccepted(schema_name) =>
                /\ lastError' = NoError
                /\ pc' = "generate:enums"
          /\ UNCHANGED <<sqlalchemy, option_order, metadata, ddlVars, loadVars, cmdVars, auxVars>>]_vars

\* C5 happens: generate was run on a model whose schema name has a grave
\* accent, and validate_model ended the run.
C5_Witness ==
    /\ lastOp.op = "validate_model"
    /\ schema_name = Str(<<"a", Backtick>>)
    /\ lastError.type = "SystemExit"
    /\ pc = "exit"
    /\ effects = <<>>

\* C6, as the specification states it: every command that consumes the loaded
\* model checks the schema name before it reads the model, writes or touches
\* the database, so that with a schema name missing or invalid no command has
\* an output or changes a database.
C6_CommandsValidateFirst ==
    ~SchemaNameAccepted(schema_name) =>
        /\ effects = <<>>
        /\ db = [d \in DatabaseNames |-> <<>>]
(***************************************************************************)
(* Properties of Column and of the Table options                           *)
(***************************************************************************)
\* C11: a Column call with the keyword server_default, whatever its value, is
\* refused with an error and hands no column to sqlalchemy; every other call
\* succeeds, and the server_default sqlalchemy gets is literal(default) when
\* the type of default is bool or int, default itself for every other default
\* that is not None, and absent when default is None or not given; the keyword
\* default itself is never handed on.
C11_ServerDefaultFromDefault ==
    [][lastOp'.op = "Column" =>
          LET given == lastOp'.kwargs
          IN  IF "server_default" \in DOMAIN given
              THEN /\ lastError'.type = "DatabaseModelException"
                   /\ built' = NothingBuilt
              ELSE /\ lastError' = NoError
                   /\ built'.kind = "Column"
                   /\ "default" \notin DOMAIN built'.kwargs
                   /\ IF "default" \in DOMAIN given /\ given["default"].type # "NoneType"
                      THEN /\ "server_default" \in DOMAIN built'.kwargs
                           /\ LET d  == given["default"]
                                  sd == built'.kwargs["server_default"]
                              IN  IF d.type \in {"bool", "int"}
                                  THEN sd = [type |-> "BindParameter",
                                             value |-> d.value, of |-> d.type]
                                  ELSE sd = d
                      ELSE "server_default" \notin DOMAIN built'.kwargs]_vars

\* C11 happens: a column was built from default=True and its server_default is
\* the literal of True.
C11_Witness ==
    /\ lastOp.op = "Column"
    /\ "default" \in DOMAIN lastOp.kwargs
    /\ lastOp.kwargs["default"] = Py("bool", "True")
    /\ built.kind = "Column"
    /\ built.kwargs["server_default"] = [type |-> "BindParameter", value |-> "True", of |-> "bool"]
\* The groups of option names of add_default_settings with their defaults
SettingGroups ==
    <<[names |-> EngineAliases, default |-> "InnoDB"],
      [names |-> CharsetAliases, default |-> "utf8mb4"],
      [names |-> CollateAliases, default |-> "utf8mb4_general_ci"],
      [names |-> RowFormatAliases, default |-> "DYNAMIC"]>>

\* The groups no name of which is among the options kw, in their fixed order
MissingGroups(kw) ==
    SelectSeq(SettingGroups, LAMBDA g : Range(g.names) \cap {kw[i].name : i \in DOMAIN kw} = {})

\* C12: the effective options of a Table call start with the user's options,
\* unchanged and in the user's order, and go on with exactly one default for
\* each group (engine, character set, collation, row format) of which the user
\* gave no alias: the first name of the group with InnoDB, utf8mb4,
\* utf8mb4_general_ci or DYNAMIC, in that order; a group of which the user gave
\* an alias gets nothing added.
C12_DefaultSettings ==
    [][pc = "Table.__new__" /\ pc' = "Table.__init__" =>
          LET given   == lastOp.kwargs
              got     == built'.kwargs
              missing == MissingGroups(given)
          IN  /\ Len(got) = Len(given) + Len(missing)
              /\ SubSeq(got, 1, Len(given)) = given
              /\ \A i \in DOMAIN missing :
                    got[Len(given) + i] = [name  |-> missing[i].names[1],
                                           value |-> missing[i].default]
              /\ \A g \in Range(SettingGroups) :
                    Cardinality({i \in DOMAIN got : got[i].name \in Range(g.names)})
                        = IF Range(g.names) \cap {given[i].name : i \in DOMAIN given} = {}
                          THEN 1
                          ELSE Cardinality({i \in DOMAIN given :
                                               given[i].name \in Range(g.names)})]_vars

\* C12 happens: the user gave an alias of the character set and a row format,
\* and the engine and the collation were added after them.
C12_Witness ==
    /\ pc = "Table.__init__"
    /\ built.kind = "Table"
    /\ lastOp.kwargs = <<[name |-> "mysql_row_format", value |-> "x"],
                         [name |-> "mysql_charset", value |-> "x"]>>
    /\ built.kwargs = <<[name |-> "mysql_row_format", value |-> "x"],
                        [name |-> "mysql_charset", value |-> "x"],
                        [name |-> "mysql_engine", value |-> "InnoDB"],
                        [name |-> "mysql_collate", value |-> "utf8mb4_general_ci"]>>
(***************************************************************************)
(* Properties of the order of the DDL                                      *)
(***************************************************************************)
\* The places of the statement CREATE TABLE <name> in a DDL text
CreatePlaces(text, name) ==
    {i \in DOMAIN text : text[i].s = "CREATE TABLE " \o name \o " ("}

\* Table child has a foreign key to the other table parent
RefersTo(md, child, parent) ==
    /\ child # parent
    /\ \E i \in DOMAIN md.tables :
          /\ md.tables[i].name = child
          /\ \E j \in DOMAIN md.tables[i].columns :
                /\ "fk" \in DOMAIN md.tables[i].columns[j]
                /\ md.tables[i].columns[j].fk.table = parent

\* The names of the tables of md
TableNamesOf(md) == {md.tables[i].name : i \in DOMAIN md.tables}

\* C13 as stated: in the text of every ddl(engine) call every table of the
\* model is created exactly once, and for every foreign key from a table A to
\* a different table B the CREATE of B comes before the CREATE of A.
C13_DependencyOrder ==
    \A e \in EngineNames :
        ddlCalls[e] > 0 =>
            /\ \A n \in TableNamesOf(metadata) :
                  Cardinality(CreatePlaces(ddlOut[e], n)) = 1
            /\ \A A, B \in TableNamesOf(metadata) :
                  RefersTo(metadata, A, B) =>
                      \A i \in CreatePlaces(ddlOut[e], A), j \in CreatePlaces(ddlOut[e], B) :
                          j < i

\* Table child has a foreign key written without use_alter to the other
\* table parent
DependsOn(md, child, parent) ==
    /\ child # parent
    /\ \E i \in DOMAIN md.tables :
          /\ md.tables[i].name = child
          /\ \E j \in DOMAIN md.tables[i].columns :
                /\ "fk" \in DOMAIN md.tables[i].columns[j]
                /\ md.tables[i].columns[j].fk.table = parent
                /\ ~md.tables[i].columns[j].fk.use_alter

RECURSIVE DependsAlong(_, _, _, _)
\* Table from depends on table to along at most k + 1 such foreign keys
DependsAlong(md, from, to, k) ==
    \/ DependsOn(md, from, to)
    \/ /\ k > 0
       /\ \E via \in TableNamesOf(md) \ {from} :
             DependsOn(md, from, via) /\ DependsAlong(md, via, to, k - 1)

\* The foreign keys written without use_alter form a cycle of tables
HasCycle(md) ==
    \E n \in TableNamesOf(md) :
        \E other \in TableNamesOf(md) \ {n} :
            DependsOn(md, n, other)
                /\ DependsAlong(md, other, n, Cardinality(TableNamesOf(md)))

\* C13, amended: every table is created exactly once, and when the foreign
\* keys written without use_alter form no cycle of tables, then for every
\* such foreign key from a table A to a different table B the CREATE of B
\* comes before the CREATE of A.
C13_DependencyOrderOffCycles ==
    \A e \in EngineNames :
        ddlCalls[e] > 0 =>
            /\ \A n \in TableNamesOf(metadata) :
                  Cardinality(CreatePlaces(ddlOut[e], n)) = 1
            /\ ~HasCycle(metadata) =>
                  \A A, B \in TableNamesOf(metadata) :
                      DependsOn(metadata, A, B) =>
                          \A i \in CreatePlaces(ddlOut[e], A),
                             j \in CreatePlaces(ddlOut[e], B) : j < i

\* C13 happens: the order of the names is against the foreign keys: t refers
\* to u, u refers to v, and the mysql text creates v, then u, then t.
C13_Witness ==
    /\ ddlCalls["mysql"] > 0
    /\ DependsOn(metadata, "t", "u")
    /\ DependsOn(metadata, "u", "v")
    /\ ~HasCycle(metadata)
    /\ \A i \in CreatePlaces(ddlOut["mysql"], "t"), j \in CreatePlaces(ddlOut["mysql"], "u"),
          k \in CreatePlaces(ddlOut["mysql"], "v") : k < j /\ j < i
(***************************************************************************)
(* Properties of the stored procedure hooks                                *)
(***************************************************************************)
\* The places of the lines of a text that start a CREATE TABLE statement
TablePlaces(text) ==
    {i \in DOMAIN text :
        \E t \in DOMAIN metadata.tables :
            text[i].s = "CREATE TABLE " \o metadata.tables[t].name \o " ("}

\* The delimiter lines of a DDL script
DelimiterLines == {Line("DELIMITER //"), Line("//"), Line("DELIMITER ;")}

\* The first line of the CREATE OR REPLACE PROCEDURE text of a procedure, with
\* and without parameters
ProcedureHeads(name) ==
    {"CREATE OR REPLACE PROCEDURE " \o name \o "(", "CREATE OR REPLACE PROCEDURE " \o name \o "()"}

\* C14: after ddl("mysql") the adapted copy has one after-create hook for each
\* stored procedure of the model, in declaration order, and the hook of a
\* procedure is the line DELIMITER //, the CREATE OR REPLACE PROCEDURE text of
\* the procedure, and the lines // and DELIMITER ; ; in the text returned every
\* CREATE TABLE comes before the first DELIMITER // line.  After a save() the
\* hooks are the bare CREATE OR REPLACE PROCEDURE texts, in declaration order,
\* without any delimiter line, and the database got them after its tables.
C14_ProcedureHooks ==
    LET procs == metadata.stored_procedures
        hooks == engineModel.after_create
    IN  /\ lastOp.op = "ddl" /\ lastOp.name = "mysql" =>
              /\ Len(hooks) = Len(procs)
              /\ \A i \in DOMAIN procs :
                    /\ Head(hooks[i]) = Line("DELIMITER //")
                    /\ hooks[i][2].s \in ProcedureHeads(procs[i].name)
                    /\ SubSeq(hooks[i], 2, Len(hooks[i]) - 2) = StoredProcedure_sql(procs[i])
                    /\ hooks[i][Len(hooks[i]) - 1] = Line("//")
                    /\ hooks[i][Len(hooks[i])] = Line("DELIMITER ;")
              /\ \A i \in TablePlaces(ddlOut["mysql"]), j \in DOMAIN ddlOut["mysql"] :
                    ddlOut["mysql"][j] = Line("DELIMITER //") => i < j
              /\ Cardinality({j \in DOMAIN ddlOut["mysql"] :
                                 ddlOut["mysql"][j] = Line("DELIMITER //")}) = Len(procs)
        /\ lastOp.op = "save" /\ lastError = NoError =>
              /\ Len(hooks) = Len(procs)
              /\ \A i \in DOMAIN procs :
                    /\ hooks[i] = StoredProcedure_sql(procs[i])
                    /\ Head(hooks[i]).s \in ProcedureHeads(procs[i].name)
                    /\ \A k \in DOMAIN hooks[i] : hooks[i][k] \notin DelimiterLines
              /\ LET stmts == db[lastOp.name]
                 IN  /\ Len(stmts) = 2 + Len(metadata.tables) + Len(procs)
                     /\ \A i \in DOMAIN procs :
                           stmts[2 + Len(metadata.tables) + i] = hooks[i]

\* C14 happens: ddl("mysql") ran on a model with the procedures q and p,
\* declared in that order, and the hooks are those of q and of p.
C14_Witness ==
    /\ lastOp.op = "ddl" /\ lastOp.name = "mysql"
    /\ Len(metadata.stored_procedures) = 2
    /\ metadata.stored_procedures[1].name = "q"
    /\ metadata.stored_procedures[2].name = "p"
    /\ Len(engineModel.after_create) = 2
    /\ engineModel.after_create[1][2] = Line("CREATE OR REPLACE PROCEDURE q(")
    /\ engineModel.after_create[2][2] = Line("CREATE OR REPLACE PROCEDURE p()")
    /\ Len(metadata.tables) = 2
\* C15, as the specification states it: the text written to the file
\* full_ddl.<schema in lower case>.mysql.sql creates every table of the model
\* once, a semicolon and a blank line come before every statement but the
\* first, and the text has no statement that creates a stored procedure (no
\* CREATE OR REPLACE PROCEDURE line and no delimiter line), whatever
\* procedures the model declares.
C15_DdlFileWithoutProcedures ==
    \A f \in DOMAIN effects :
        effects[f].kind = "file"
        /\ effects[f].name = "full_ddl." \o lower(schema_name) \o ".mysql.sql" =>
            LET text == effects[f].text
            IN  /\ \A t \in DOMAIN metadata.tables :
                      Cardinality(CreatePlaces(text, metadata.tables[t].name)) = 1
                /\ \A i \in TablePlaces(text) :
                      i > 1 => i > 2 /\ text[i - 1] = Line("") /\ text[i - 2] = Line(");")
                /\ \A i \in DOMAIN text :
                      /\ text[i] \notin DelimiterLines
                      /\ \A k \in DOMAIN metadata.stored_procedures :
                            text[i].s \notin ProcedureHeads(metadata.stored_procedures[k].name)
(***************************************************************************)
(* Properties of the enum-tables command                                   *)
(***************************************************************************)
\* The rows the table of an enum should have: (i, v_i) for its values v_0, ...
DeclaredRows(enum) == [k \in DOMAIN enum.values |-> [value |-> k - 1, name |-> enum.values[k]]]

\* C16, as the specification states it: when the enum-tables command has
\* completed, the table of every enum of the model has exactly the rows
\* (i, v_i) of the enum's values, once each and no other row.
C16_LookupRowsAreTheEnum ==
    pc = "done" /\ command = "enum-tables" /\ Len(metadata.enums) > 0 =>
        \A i \in DOMAIN metadata.enums :
            \E t \in live.tables :
                /\ t.name = table_name_from_enum(metadata.enums[i].name)
                /\ t.rows = DeclaredRows(metadata.enums[i])

\* C17: when a run of enum-tables has ended, completed or with an error, the
\* database is the one a single run without a stop leaves on the database
\* create-db made of the model, whatever runs were stopped or ended before
\* it and wherever they were stopped; and no table of an enum has two rows
\* with one code or one name.
C17_RerunLikeCleanRun ==
    pc \in {"done", "exit"} /\ command = "enum-tables" =>
        /\ live = enum_tables(metadata, CreatedDatabase(metadata, live.strict))
        /\ \A t \in live.tables :
              \A x, y \in DOMAIN t.rows :
                  x # y => t.rows[x].value # t.rows[y].value /\ t.rows[x].name # t.rows[y].name

\* C17 happens: a run was stopped while it populated the tables, after the
\* first table had its rows; the run after it completed, and the tables of
\* both enums have their two rows.
C17_Witness ==
    /\ pc = "done"
    /\ command = "enum-tables"
    /\ built.kind = "enum_tables"
    /\ built.again = [at |-> "enum-tables:populate", step |-> 2]
    /\ Len(metadata.enums) = 2
    /\ \A i \in DOMAIN metadata.enums :
          \E t \in live.tables :
              /\ t.name = table_name_from_enum(metadata.enums[i].name)
              /\ Len(t.rows) = 2
    /\ live.views # {}

\* C18, as the specification states it: while enum-tables runs, at most one
\* table of an enum exists that does not have all its rows.
C18_OneEnumAtATime ==
    built.kind = "enum_tables" =>
        Cardinality({i \in DOMAIN built.enum_tables :
                        \E t \in live.tables :
                            /\ t.name = built.enum_tables[i].table
                            /\ t.rows # built.enum_tables[i].values}) <= 1

\* C19, as the specification states it: when view generation has ended, there
\* is exactly one view for each table of the model with an enum column and
\* none for another table; the view of table <t> is enumed_<t>_view, and its
\* query selects t.* and, for each enum column c, <enum table>.name as c_name,
\* with one LEFT JOIN <enum table> ON t.c = <enum table>.value for each.
C19_ViewPerTableWithEnums ==
    lastOp.op = "_generate_views" /\ pc \in {"done", "exit"} =>
        /\ Cardinality(live.views) = Len(enum_type_mappings(metadata))
        /\ \A i \in DOMAIN metadata.tables :
              LET table == metadata.tables[i]
                  cols  == EnumColumnsByName(table)
                  et(k) == table_name_from_enum(cols[k].type.field_data)
              IN  Len(cols) > 0 =>
                      \E v \in live.views :
                          /\ v.name = "enumed_" \o table.name \o "_view"
                          /\ v.query =
                                "CREATE OR REPLACE VIEW enumed_" \o table.name
                                \o "_view AS SELECT t.*, "
                                \o JoinStr([k \in DOMAIN cols |->
                                               et(k) \o ".name as " \o cols[k].name \o "_name"],
                                           ", ")
                                \o " FROM " \o table.name \o " t "
                                \o JoinStr([k \in DOMAIN cols |->
                                               "LEFT JOIN " \o et(k) \o " ON t." \o cols[k].name
                                               \o " = " \o et(k) \o ".value"], " ")
\* The generate command has written its jOOQ configuration
ConfigWritten == pc \in {"done", "generate:jooq"} /\ lastOp.op = "generate_jooq_config"

\* The forced-type entries of the configuration generate wrote last
ConfigFields == Range(effects[Len(effects)].text)

\* C20: when generate has written the generator configuration, every enum
\* column of every table of the model has a forced-type entry whose expression
\* is <table>\.<column> and whose type is <java package>.<schema in lower
\* case>.enums.<EnumName>, and no entry for that expression has the bare enum
\* name or the column's raw type INTEGER as its type.
C20_EnumColumnsFullyQualified ==
    ConfigWritten =>
        \A t \in DOMAIN metadata.tables :
            \A c \in DOMAIN metadata.tables[t].columns :
                LET table  == metadata.tables[t]
                    column == table.columns[c]
                    expr   == table.name \o "\\." \o column.name
                    fqn    == lastOp.package \o "." \o lower(schema_name)
                              \o ".enums." \o column.type.field_data
                IN  column.type.kind = "IntegerEnum" =>
                       /\ [expression |-> expr, name |-> fqn] \in ConfigFields
                       /\ \A f \in ConfigFields :
                             f.expression = expr =>
                                /\ f.name = fqn
                                /\ f.name # column.type.field_data
                                /\ f.name # "INTEGER"

\* generate wrote the configuration of a model whose table t has a column of
\* the enum E and a column of the enum MyEnum, next to a table without enums
C20_Witness ==
    /\ ConfigWritten
    /\ Len(metadata.tables) = 2
    /\ \E t \in DOMAIN metadata.tables :
          /\ metadata.tables[t].columns[1].type = IntegerEnum("E")
          /\ metadata.tables[t].columns[2].type = IntegerEnum("MyEnum")
    /\ Cardinality(ConfigFields) = 2


\* get_type_mappings has run
Mapped == pc = "done" /\ built.kind = "type_mappings"

\* The type names the mapping holds for a column of the table t
MappedNames(column_name) ==
    UNION {{m.type_name : m \in {x \in Range(built.mappings[i].columns) :
                                     x.column = column_name}} :
           i \in DOMAIN built.mappings}

\* The types the fields of the configuration hold for a column of the table t
FieldNames(column_name) ==
    {f.name : f \in {g \in Range(built.fields) : g.expression = "t\\." \o column_name}}

\* The kind of the type of a column of the table t
KindOf(column_name) ==
    LET table == metadata.tables[TableIndex(metadata, "t")]
    IN  (CHOOSE c \in Range(table.columns) : c.name = column_name).type.kind

\* C21: in the configuration (the mapping of the default families) every
\* Boolean column has the type BOOLEAN, whatever enums the model declares; in
\* every mapping a BINARY column appears exactly when the binary family is
\* asked for, and then with the type BINARY in the fields, and a column of
\* another type (DateTime) never appears.
C21_FixedTypeNames ==
    Mapped =>
        \A c \in ColumnNames :
            /\ (KindOf(c) = "Boolean" /\ ~lastOp.filter_types.given)
                  => FieldNames(c) = {"BOOLEAN"}
            /\ KindOf(c) = "BINARY" =>
                  /\ (MappedNames(c) # {}) <=>
                        (lastOp.filter_types.given
                         /\ "binary" \in lastOp.filter_types.families)
                  /\ FieldNames(c) \subseteq {"BINARY"}
            /\ KindOf(c) = "DateTime" => MappedNames(c) = {} /\ FieldNames(c) = {}

\* The values values() returned are those of the model's enum in declared
\* order with the model's codes, and the final one alone has the key last
ValuesAsDeclared(result, enum) ==
    /\ Len(result) = Len(enum.values)
    /\ \A k \in DOMAIN result :
          /\ result[k].valname = enum.values[k]
          /\ result[k].valnum = k - 1
          /\ result[k].valnum = enum.attrs[enum.values[k]]
          /\ ("last" \in DOMAIN result[k]) <=> (k = Len(result))

\* C22: for every enum of the model, with any number of values, the template
\* data holds the values in declared order with the codes 0..N-1 of the model,
\* every values() call returns them with the key last on exactly the final
\* entry, no call raises, and the stored list is the same after the calls, so
\* all calls return the same.
C22_TemplateValues ==
    built.kind = "EnumCodeGenerator" =>
        /\ lastError = NoError
        /\ \A i \in DOMAIN built.enums :
              /\ built.enums[i].name = metadata.enums[i].name
              /\ built.enums[i].values =
                    [k \in DOMAIN metadata.enums[i].values |->
                        [valname |-> metadata.enums[i].values[k], valnum |-> k - 1]]
              /\ \A c \in DOMAIN built.returned[i] :
                    /\ ValuesAsDeclared(built.returned[i][c], metadata.enums[i])
                    /\ built.returned[i][c] = built.returned[i][1]


\* The steps of generate in their order: the place of each in the order
StepOfPc(at) ==
    CASE at = "command" -> 0
      [] at = "generate:enums" -> 1
      [] at = "generate:ddl" -> 2
      [] at = "generate:config" -> 3
      [] at \in {"generate:jooq", "generate:jooq:run", "generate:jooq:finally"} -> 4
      [] OTHER -> 5

\* Where each step of generate starts
GenerateStarts == {"generate:enums", "generate:ddl", "generate:config", "generate:jooq"}

\* The step of generate that something written or done belongs to
StepOfEffect(e) ==
    IF e.kind \in {"db", "run"} THEN 4
    ELSE IF e.name = "full_ddl." \o lower(schema_name) \o ".mysql.sql" THEN 2
    ELSE IF e.name = "ogma_jooq_gen_config." \o lower(schema_name) \o ".xml" THEN 3
    ELSE 1

\* C23: every step of generate is taken in the order validation, enum and
\* converter files, DDL file, configuration, external generator (the last one
\* only when asked for); no step is taken after a step that failed; a step
\* leaves what the steps before it wrote as it is and adds only its own
\* files; the run ends at once exactly when the step failed; and after a
\* failed validation nothing is written.
C23_GenerateStepsInOrder ==
    [][/\ lastError = NoError
       /\ Len(effects') >= Len(effects)
       /\ SubSeq(effects', 1, Len(effects)) = effects
       /\ \A k \in (Len(effects) + 1)..Len(effects') :
             StepOfEffect(effects'[k]) = StepOfPc(pc)
       /\ (pc' = "exit") <=> (lastError' # NoError)
       /\ pc' # "exit" =>
             \/ StepOfPc(pc') = StepOfPc(pc) + 1 /\ pc' \in GenerateStarts
             \/ pc = "generate:jooq" /\ pc' = "generate:jooq:run"
             \/ pc = "generate:jooq:run" /\ pc' = "generate:jooq:finally"
             \/ pc' = "done" /\ pc \in {"generate:config", "generate:jooq:finally"}
       /\ (pc = "command" /\ lastError' # NoError) => effects' = <<>>]_vars

\* The external generator failed: generate ended with its error, and the enum
\* files, the DDL file and the configuration are in place
C23_Witness ==
    /\ pc = "exit"
    /\ lastError = CalledProcessError
    /\ \E i, k, c \in DOMAIN effects :
          /\ i < k /\ k < c
          /\ StepOfEffect(effects[i]) = 1
          /\ StepOfEffect(effects[k]) = 2
          /\ StepOfEffect(effects[c]) = 3


\* The characters the message of an invalid schema name lists: the dot and
\* the characters of invalid_chars
ListedChars == {"."} \cup Range(invalid_chars)

\* C24: a schema name with one of the characters the error message lists as
\* forbidden (the backslash among them), or with a path separator (/ or the
\* backslash), never passes validate_model.
C24_ListedCharsRejected ==
    (/\ lastOp.op = "validate_model"
     /\ schema_name.type = "str"
     /\ Range(schema_name.value) \cap (ListedChars \cup {"/", "\\"}) # {})
        => lastError # NoError


\* C25: an enum declaration under a name the enum collection does not hold,
\* with value names that are pairwise distinct, succeeds whatever the names
\* are, and the collection then holds the enum under its name, as key and as
\* attribute, with all its values in order.
C25_OnlyRealCollisionsRejected ==
    [][(/\ lastOp'.op = "Enum"
        /\ lastOp'.name \notin Range(EnumKeys(metadata))
        /\ ~HasRepeat(lastOp'.args))
          => /\ lastError' = NoError
             /\ lastOp'.name \in Range(EnumKeys(metadata'))
             /\ lastOp'.name \in metadata'.enum_attrs
             /\ metadata'.enums[EnumIndex(metadata', lastOp'.name)].values
                   = lastOp'.args]_vars

\* C26: an enum declaration that fails because of a repeated value name leaves
\* the model as it was: the enum collection has the same keys and attributes
\* as before, and no enum of the collection holds fewer values than its
\* declaration gave it.
C26_FailedDeclarationLeavesNothing ==
    [][(/\ lastOp'.op = "Enum"
        /\ lastOp'.name \notin Range(EnumKeys(metadata))
        /\ ~coll_hasattr(metadata, lastOp'.name)
        /\ HasRepeat(lastOp'.args)
        /\ lastError'.type = "DatabaseModelException")
          => /\ metadata'.enums = metadata.enums
             /\ metadata'.enum_attrs = metadata.enum_attrs]_vars


\* C27: the statement of every view joins each lookup table at most once
\* under a name: its LEFT JOIN targets are pairwise different, and so are the
\* names of the select items added, also when two enum columns of the table
\* are of the same enum.
C27_JoinTargetsDistinct ==
    lastOp.op = "_generate_views" =>
        /\ \A x, y \in DOMAIN lastOp.joined :
              x # y => lastOp.joined[x] # lastOp.joined[y]
        /\ \A x, y \in DOMAIN lastOp.aliases :
              x # y => lastOp.aliases[x] # lastOp.aliases[y]

\* C28: enums of different names get different lookup-table names, so that
\* enum-tables makes one table for each enum of the model and none for two.
C28_TableNamesDistinct ==
    /\ built.kind = "enum_tables" =>
          \A x, y \in DOMAIN built.enum_tables :
             built.enum_tables[x].enum # built.enum_tables[y].enum =>
                built.enum_tables[x].table # built.enum_tables[y].table
    /\ lastOp.op = "enum_tables" => lastError.type # "InvalidRequestError"
    /\ (built.kind = "enum_tables" /\ pc \in {"enum-tables:populate", "done"}) =>
          \A i \in DOMAIN metadata.enums :
             Cardinality({t \in live.tables :
                             t.name = table_name_from_enum(metadata.enums[i].name)}) = 1


====
